---- MODULE Spec2Model ----
(***************************************************************************)
(* plan10-cli: the server registry of config.rs (Config and its methods)   *)
(* and the connect sequence of ssh.rs (SshClient::connect).                *)
(***************************************************************************)
EXTENDS Integers, Sequences, FiniteSets, TLC

(***************************************************************************)
(* Bounds and value universes                                              *)
(***************************************************************************)
\* chrono timestamps are drawn from 1..MaxClock
MaxClock == 1

\* registry keys / name fields; "env" is the key merge_env_vars uses
Names == {"a", "env"}
\* host strings: empty, one equal to a registry key, one ordinary
Hosts == {"", "a", "h"}
Users == {"", "u"}
\* u16 ports in stored definitions: both ends of the type
Ports == {0, 65535}
\* the port merge_env_vars falls back to
DefaultPort == 22
U16Max == 65535

\* Option<T>
None == [some |-> FALSE]
Some(x) == [some |-> TRUE, val |-> x]

Times == 1..MaxClock
OptTimes == {None} \cup {Some(t) : t \in Times}
OptNames == {None} \cup {Some(n) : n \in Names}

\* struct ServerDefinition (ssh_key, tags and enabled are carried along
\* unread by every registry operation and are left out)
ServerDefinition == [name : Names, host : Hosts, user : Users, port : Ports, last_seen : OptTimes]

\* the definitions add_server is called with: every caller builds the
\* definition with last_seen: None
NewServers == {d \in ServerDefinition : d.last_seen = None}

\* the (temp_threshold, battery_warning_level) pairs a configuration file holds:
\* the defaults, a temperature above the accepted range, a battery level above it
Thresholds == {<<80, 20>>, <<151, 20>>, <<80, 101>>}

\* what resolve_server may be asked for
Identifiers == Names \cup Hosts

\* file paths as sequences of components; "~" is the home-directory shorthand
HomeDir == "/home/op"
Paths == {<<"~", "id_rsa">>, <<"keys", "k1">>}
OptPaths == {None} \cup {Some(p) : p \in Paths}
LogLevels == {"info", "debug"}

VARIABLES
    servers,                \* Config.servers : HashMap<String, ServerDefinition>
    default_server,         \* Config.client.default_server : Option<String>
    temp_threshold,         \* Config.server.temp_threshold
    battery_warning_level,  \* Config.server.battery_warning_level
    key_path,               \* Config.ssh.key_path : Option<String>
    log_level,              \* Config.server.log_level
    ret,                    \* the last registry call: its name, argument and result
    target,                 \* the ServerDefinition handed to SshClient::connect
    key_files,              \* the key files that exist on disk
    pc,                     \* the position of SshClient::connect
    authenticated,          \* session.authenticated()
    attempts,               \* the authentication calls made so far, with their results
    conn_ret,               \* what SshClient::connect returned
    trace,                  \* the remote commands the current session call has issued, with what became of each
    sess_ret,               \* what the last SshClient call returned
    info_pc,                \* get_system_info: 0 when not running, else the index of the next command
    connections,            \* SshPool.connections : HashMap<String, SshClient>, sessions by their number
    inflight,               \* the get_connection call that holds the pool while its connect is awaited
    next_session,           \* how many sessions connect has created for the pool
    live,                   \* per key, the successful connects since the key was last evicted
    released,               \* the sessions dropped from the pool, with the key they were under
    pool_ret,               \* the last pool call and what it returned
    local_files,            \* the local paths that exist in the current directory
    local_dirs,             \* those of them that are directories
    d_in,                   \* the arguments of execute_deploy
    d_pc,                   \* the position of execute_deploy
    d_server,               \* the definition resolve_or_create_server returned
    deployment_items,       \* the plan: Vec<(category, Vec<(local, remote)>)>
    d_cat,                  \* the index of the category the loop is at
    d_item,                 \* the index of the pair the category function is at
    pb_pos,                 \* the position of the progress bar
    d_log,                  \* what the command did so far: connects, remote commands, transfers, skips
    d_ret,                  \* what execute_deploy returned
    m_in,                   \* the arguments of execute_manage
    m_pc,                   \* the position of execute_manage
    m_ret,                  \* what execute_manage returned
    d_runs,                 \* how many times the deploy command has been invoked
    cd_walk,                \* copy_directory: the entries WalkDir::new(local_dir) yields, in its order
    cd_pc,                  \* copy_directory: its position
    cd_i,                   \* copy_directory: the index of the entry the loop is at
    cd_log,                 \* copy_directory: the remote commands and transfers it made
    cd_remote,              \* the files present under remote_dir
    cd_ret                  \* what copy_directory returned

config == <<servers, default_server, temp_threshold, battery_warning_level, key_path, log_level>>
conn == <<target, key_files, pc, authenticated, attempts, conn_ret>>
sess == <<trace, sess_ret, info_pc>>
pool == <<connections, inflight, next_session, live, released, pool_ret>>
deploy == <<local_files, local_dirs, d_in, d_pc, d_server, deployment_items, d_cat, d_item, pb_pos, d_log, d_ret,
            m_in, m_pc, m_ret, d_runs>>
copydir == <<cd_walk, cd_pc, cd_i, cd_log, cd_remote, cd_ret>>
vars == <<servers, default_server, temp_threshold, battery_warning_level, key_path, log_level, ret,
          target, key_files, pc, authenticated, attempts, conn_ret,
          trace, sess_ret, info_pc,
          connections, inflight, next_session, live, released, pool_ret,
          local_files, local_dirs, d_in, d_pc, d_server, deployment_items, d_cat, d_item, pb_pos, d_log, d_ret,
          m_in, m_pc, m_ret, d_runs,
          cd_walk, cd_pc, cd_i, cd_log, cd_remote, cd_ret>>

\* what a step of one component leaves alone
RegistryFrame == UNCHANGED <<conn, sess, pool, deploy, copydir>>
ConnectFrame == UNCHANGED <<config, ret, sess, pool, deploy, copydir>>
SessionFrame == UNCHANGED <<config, ret, conn, pool, deploy, copydir>>
PoolFrame == UNCHANGED <<config, ret, conn, sess, deploy, copydir>>
DeployFrame == UNCHANGED <<config, ret, conn, sess, pool, copydir>>
CopyDirFrame == UNCHANGED <<config, ret, conn, sess, pool, deploy>>

(***************************************************************************)
(* HashMap<String, ServerDefinition>                                       *)
(***************************************************************************)
contains_key(m, k) == k \in DOMAIN m
insert(m, k, v) == [x \in (DOMAIN m) \cup {k} |-> IF x = k THEN v ELSE m[x]]
remove(m, k) == [x \in (DOMAIN m) \ {k} |-> m[x]]
values(m) == {m[k] : k \in DOMAIN m}
EmptyMap == [x \in {} |-> None]

Ok(op, arg) == [op |-> op, arg |-> arg, ok |-> TRUE, val |-> None]
OkVal(op, arg, v) == [op |-> op, arg |-> arg, ok |-> TRUE, val |-> v]
Err(op, arg, e) == [op |-> op, arg |-> arg, ok |-> FALSE, val |-> Some(e)]

(***************************************************************************)
(* Config::add_server                                                      *)
(***************************************************************************)
\* a variant that inserts before it looks for the duplicate
AddServerInsertFirst(server) ==
    /\ servers' = insert(servers, server.name, server)
    /\ ret' = IF contains_key(servers, server.name)
              THEN Err("add_server", server.name, "already exists")
              ELSE Ok("add_server", server.name)
    /\ UNCHANGED <<default_server, temp_threshold, battery_warning_level, key_path, log_level>>

\* a variant that files the definition under its host
AddServerKeyedByHost(server) ==
    IF contains_key(servers, server.name)
    THEN /\ ret' = Err("add_server", server.name, "already exists")
         /\ UNCHANGED config
    ELSE /\ servers' = insert(servers, server.host, server)
         /\ ret' = Ok("add_server", server.name)
         /\ UNCHANGED <<default_server, temp_threshold, battery_warning_level, key_path, log_level>>

AddServer(server) ==
    IF contains_key(servers, server.name)
    THEN /\ ret' = Err("add_server", server.name, "already exists")
         /\ UNCHANGED config
    ELSE /\ servers' = insert(servers, server.name, server)
         /\ ret' = Ok("add_server", server.name)
         /\ UNCHANGED <<default_server, temp_threshold, battery_warning_level, key_path, log_level>>

(***************************************************************************)
(* Config::remove_server                                                   *)
(***************************************************************************)
\* a variant that clears the default target before it looks for the name
RemoveServerClearsFirst(name) ==
    /\ default_server' = IF default_server = Some(name) THEN None ELSE default_server
    /\ IF ~contains_key(servers, name)
       THEN /\ ret' = Err("remove_server", name, "not found")
            /\ UNCHANGED servers
       ELSE /\ servers' = remove(servers, name)
            /\ ret' = Ok("remove_server", name)
    /\ UNCHANGED <<temp_threshold, battery_warning_level, key_path, log_level>>

\* a variant that clears the default target whatever it names
RemoveServerAlwaysClears(name) ==
    IF ~contains_key(servers, name)
    THEN /\ ret' = Err("remove_server", name, "not found")
         /\ UNCHANGED config
    ELSE /\ servers' = remove(servers, name)
         /\ default_server' = None
         /\ ret' = Ok("remove_server", name)
         /\ UNCHANGED <<temp_threshold, battery_warning_level, key_path, log_level>>

\* a variant that never clears the default target
RemoveServerKeepsDefault(name) ==
    IF ~contains_key(servers, name)
    THEN /\ ret' = Err("remove_server", name, "not found")
         /\ UNCHANGED config
    ELSE /\ servers' = remove(servers, name)
         /\ ret' = Ok("remove_server", name)
         /\ UNCHANGED <<default_server, temp_threshold, battery_warning_level, key_path, log_level>>

RemoveServer(name) ==
    IF ~contains_key(servers, name)
    THEN /\ ret' = Err("remove_server", name, "not found")
         /\ UNCHANGED config
    ELSE /\ servers' = remove(servers, name)
         /\ default_server' = IF default_server = Some(name) THEN None ELSE default_server
         /\ ret' = Ok("remove_server", name)
         /\ UNCHANGED <<temp_threshold, battery_warning_level, key_path, log_level>>

(***************************************************************************)
(* Config::update_server_last_seen; t is chrono::Utc::now()                *)
(***************************************************************************)
UpdateServerLastSeen(name, t) ==
    IF contains_key(servers, name)
    THEN /\ servers' = [servers EXCEPT ![name].last_seen = Some(t)]
         /\ ret' = Ok("update_server_last_seen", name)
         /\ UNCHANGED <<default_server, temp_threshold, battery_warning_level, key_path, log_level>>
    ELSE /\ ret' = Err("update_server_last_seen", name, "not found")
         /\ UNCHANGED config

(***************************************************************************)
(* Config::resolve_server: the set of results the call can give.  The host *)
(* scan follows the HashMap's iteration order, which is unspecified, so    *)
(* every definition with a matching host is a possible first match.        *)
(***************************************************************************)
\* a variant that scans the hosts before it looks up the name
resolve_server_host_first(m, name_or_host) ==
    LET matches == {s \in values(m) : s.host = name_or_host}
    IN  IF matches # {} THEN {Some(s) : s \in matches}
        ELSE IF contains_key(m, name_or_host) THEN {Some(m[name_or_host])}
        ELSE {None}

resolve_server(m, name_or_host) ==
    IF contains_key(m, name_or_host)
    THEN {Some(m[name_or_host])}
    ELSE LET matches == {s \in values(m) : s.host = name_or_host}
         IN  IF matches = {} THEN {None} ELSE {Some(s) : s \in matches}

ResolveServer(name_or_host) ==
    /\ \E r \in resolve_server(servers, name_or_host) :
          ret' = OkVal("resolve_server", name_or_host, r)
    /\ UNCHANGED config

(***************************************************************************)
(* Config::validate: the set of results the call can give.  The loop over  *)
(* the servers stops at the first server that fails, in iteration order.   *)
(***************************************************************************)
\* a variant whose port check only has the upper end
server_error_upper_port(name, server) ==
    IF server.name # name THEN "name mismatch"
    ELSE IF server.host = "" THEN "empty host"
    ELSE IF server.user = "" THEN "empty user"
    ELSE IF server.port > U16Max THEN "invalid port"
    ELSE "none"

server_error(name, server) ==
    IF server.name # name THEN "name mismatch"
    ELSE IF server.host = "" THEN "empty host"
    ELSE IF server.user = "" THEN "empty user"
    ELSE IF server.port = 0 \/ server.port > U16Max THEN "invalid port"
    ELSE "none"

validate(m, dflt, temp, battery) ==
    LET failing == {k \in DOMAIN m : server_error(k, m[k]) # "none"}
    IN  IF failing # {}
        THEN {<<server_error(k, m[k]), k>> : k \in failing}
        ELSE IF dflt.some /\ ~contains_key(m, dflt.val)
        THEN {<<"default server not found", dflt.val>>}
        ELSE IF temp < 0 \/ temp > 150
        THEN {<<"invalid temperature threshold", "">>}
        ELSE IF battery > 100
        THEN {<<"invalid battery warning level", "">>}
        ELSE {<<"ok", "">>}

Validate ==
    /\ \E r \in validate(servers, default_server, temp_threshold, battery_warning_level) :
          ret' = IF r[1] = "ok" THEN Ok("validate", "") ELSE Err("validate", "", r)
    /\ UNCHANGED config

(***************************************************************************)
(* Config::merge_env_vars; each argument is the value of an environment    *)
(* variable (None when unset); port is PLAN10_PORT after parse, None when  *)
(* unset or unparsable.                                                    *)
(***************************************************************************)
MergeEnvVars(host, user, port, ssh_key, level) ==
    /\ IF host.some /\ user.some
       THEN /\ servers' = insert(servers, "env",
                              [name |-> "env", host |-> host.val, user |-> user.val,
                               port |-> IF port.some THEN port.val ELSE DefaultPort,
                               last_seen |-> None])
            /\ default_server' = Some("env")
       ELSE UNCHANGED <<servers, default_server>>
    /\ key_path' = IF ssh_key.some THEN Some(ssh_key.val) ELSE key_path
    /\ log_level' = IF level.some THEN level.val ELSE log_level
    /\ ret' = Ok("merge_env_vars", "")
    /\ UNCHANGED <<temp_threshold, battery_warning_level>>

(***************************************************************************)
(* shellexpand::tilde: a leading "~" becomes the home directory            *)
(***************************************************************************)
tilde(path) ==
    IF Len(path) > 0 /\ path[1] = "~" THEN <<HomeDir>> \o Tail(path) ELSE path

\* the files a key path can name once expanded
KeyFiles == {tilde(p) : p \in Paths}

\* a variant that prefers the global key path
chosen_key_global_first(server, global_key_path) ==
    IF global_key_path.some THEN global_key_path ELSE server.ssh_key

\* server.ssh_key.as_ref().or(config.ssh.key_path.as_ref())
chosen_key(server, global_key_path) ==
    IF server.ssh_key.some THEN server.ssh_key ELSE global_key_path

\* what an ssh2 authentication call can do: succeed and leave the session
\* authenticated, return Ok without authenticating it, or return an error
AuthOutcomes == {"ok_auth", "ok_unauth", "err"}

ConnErr(e) == [ok |-> FALSE, err |-> e]
ConnOk == [ok |-> TRUE, err |-> <<>>]
Pending == [ok |-> FALSE, err |-> <<"pending">>]

(***************************************************************************)
(* SshClient::connect, one action per awaited or fallible step             *)
(***************************************************************************)
\* TcpStream::connect under the connect timeout, then tcp.into_std()
ConnectTcp(outcome) ==
    /\ pc = "tcp"
    /\ IF outcome = "timeout"
       THEN pc' = "done" /\ conn_ret' = ConnErr(<<"Connection timeout">>)
       ELSE IF outcome = "refused"
       THEN pc' = "done" /\ conn_ret' = ConnErr(<<"Failed to connect to server">>)
       ELSE pc' = "handshake" /\ UNCHANGED conn_ret
    /\ UNCHANGED <<target, key_files, authenticated, attempts>>

\* Session::new, set_tcp_stream, handshake
Handshake(success) ==
    /\ pc = "handshake"
    /\ IF success
       THEN pc' = "key" /\ UNCHANGED conn_ret
       ELSE pc' = "done" /\ conn_ret' = ConnErr(<<"SSH handshake failed">>)
    /\ UNCHANGED <<target, key_files, authenticated, attempts>>

\* "Try key authentication first"
KeyAuth(outcome) ==
    /\ pc = "key"
    /\ LET key == chosen_key(target, key_path)
       IN  IF key.some /\ tilde(key.val) \in key_files
           THEN /\ attempts' = Append(attempts, [method |-> "key", path |-> tilde(key.val), result |-> outcome])
                /\ IF outcome = "err"
                   THEN /\ pc' = "done"
                        /\ conn_ret' = ConnErr(<<"SSH key authentication failed">>)
                        /\ UNCHANGED authenticated
                   ELSE /\ pc' = "agent"
                        /\ authenticated' = (outcome = "ok_auth")
                        /\ UNCHANGED conn_ret
           ELSE /\ pc' = "agent"
                /\ UNCHANGED <<attempts, authenticated, conn_ret>>
    /\ UNCHANGED <<target, key_files>>

\* a variant that asks the agent whether or not the key step authenticated
AgentAuthAlways(outcome) ==
    /\ pc = "agent"
    /\ attempts' = Append(attempts, [method |-> "agent", path |-> <<>>, result |-> outcome])
    /\ IF outcome = "err"
       THEN /\ pc' = "done"
            /\ conn_ret' = ConnErr(<<"SSH agent authentication failed">>)
            /\ UNCHANGED authenticated
       ELSE /\ pc' = "final"
            /\ authenticated' = (authenticated \/ outcome = "ok_auth")
            /\ UNCHANGED conn_ret
    /\ UNCHANGED <<target, key_files>>

\* "Fall back to SSH agent if key auth didn't work"
AgentAuth(outcome) ==
    /\ pc = "agent"
    /\ IF ~authenticated
       THEN /\ attempts' = Append(attempts, [method |-> "agent", path |-> <<>>, result |-> outcome])
            /\ IF outcome = "err"
               THEN /\ pc' = "done"
                    /\ conn_ret' = ConnErr(<<"SSH agent authentication failed">>)
                    /\ UNCHANGED authenticated
               ELSE /\ pc' = "final"
                    /\ authenticated' = (outcome = "ok_auth")
                    /\ UNCHANGED conn_ret
       ELSE /\ pc' = "final"
            /\ UNCHANGED <<attempts, authenticated, conn_ret>>
    /\ UNCHANGED <<target, key_files>>

\* the final authenticated() check and the return
FinalCheck ==
    /\ pc = "final"
    /\ pc' = "done"
    /\ conn_ret' = IF ~authenticated
                   THEN ConnErr(<<"Authentication failed", target.user, target.host>>)
                   ELSE ConnOk
    /\ UNCHANGED <<target, key_files, authenticated, attempts>>

(***************************************************************************)
(* SshClient::execute_command.  What the remote side and the transport do  *)
(* with one command is an input: either one of the fallible calls fails,   *)
(* or the command terminates with an exit status and its output.           *)
(***************************************************************************)
\* the calls execute_command makes with `?`, in order
ExecSteps == <<"channel_session", "exec", "read_stdout", "read_stderr", "wait_close", "exit_status">>
\* i32 exit statuses
ExitCodes == {0, 1}
\* captured stdout, as sequences of characters
Stdouts == {<<>>, <<"x">>, <<" ", "x", "\n">>}

ExecOutcomes ==
    {[kind |-> "fail", step |-> ExecSteps[i]] : i \in 1..Len(ExecSteps)}
    \cup {[kind |-> "exit", exit_code |-> c, stdout |-> o] : c \in ExitCodes, o \in Stdouts}

\* struct CommandResult (stderr is captured like stdout and read by none of
\* the calls modelled here)
CommandResult(stdout, exit_status) ==
    [stdout |-> stdout, exit_code |-> exit_status, success |-> (exit_status = 0)]

\* a variant that turns a non-zero exit status into an error
execute_command_checked(o) ==
    IF o.kind = "fail" THEN [ok |-> FALSE, val |-> o.step]
    ELSE IF o.exit_code # 0 THEN [ok |-> FALSE, val |-> "exit_status"]
    ELSE [ok |-> TRUE, val |-> CommandResult(o.stdout, o.exit_code)]

\* the Result of execute_command under outcome o
execute_command(o) ==
    IF o.kind = "fail"
    THEN [ok |-> FALSE, val |-> o.step]
    ELSE [ok |-> TRUE, val |-> CommandResult(o.stdout, o.exit_code)]

Issued(cmd, o) == [cmd |-> cmd, out |-> o]
Returned(call, r) == [call |-> call, ok |-> r.ok, val |-> r.val]

\* a variant that gives up at once when the timeout is zero
execute_command_with_timeout_enforced(o, timeout_secs) ==
    IF timeout_secs = 0 THEN [ok |-> FALSE, val |-> "timeout"] ELSE execute_command(o)

\* SshClient::execute_command_with_timeout
execute_command_with_timeout(o, timeout_secs) == execute_command(o)

\* the u64 timeouts callers pass
Timeouts == {0, 1, 30}

ExecuteCommandWithTimeout(cmd, timeout_secs, o) ==
    /\ info_pc = 0
    /\ trace' = <<Issued(cmd, o)>>
    /\ sess_ret' = [call |-> "execute_command_with_timeout", cmd |-> cmd, timeout |-> timeout_secs,
                    ok |-> execute_command_with_timeout(o, timeout_secs).ok,
                    val |-> execute_command_with_timeout(o, timeout_secs).val]
    /\ UNCHANGED info_pc

ExecuteCommand(cmd, o) ==
    /\ info_pc = 0
    /\ trace' = <<Issued(cmd, o)>>
    /\ sess_ret' = Returned("execute_command", execute_command(o))
    /\ UNCHANGED info_pc

(***************************************************************************)
(* SshClient::file_exists, directory_exists, ensure_directory              *)
(***************************************************************************)
\* result.map(|r| r.success).unwrap_or(false)
success_or_false(r) == IF r.ok THEN r.val.success ELSE FALSE

FileExists(remote_path, o) ==
    /\ info_pc = 0
    /\ trace' = <<Issued("test -f " \o remote_path, o)>>
    /\ sess_ret' = [call |-> "file_exists", ok |-> TRUE, val |-> success_or_false(execute_command(o))]
    /\ UNCHANGED info_pc

DirectoryExists(remote_path, o) ==
    /\ info_pc = 0
    /\ trace' = <<Issued("test -d " \o remote_path, o)>>
    /\ sess_ret' = [call |-> "directory_exists", ok |-> TRUE, val |-> success_or_false(execute_command(o))]
    /\ UNCHANGED info_pc

EnsureDirectory(remote_path, o) ==
    /\ info_pc = 0
    /\ trace' = <<Issued("mkdir -p " \o remote_path, o)>>
    /\ sess_ret' = LET r == execute_command(o)
                   IN  IF r.ok THEN [call |-> "ensure_directory", ok |-> TRUE, val |-> ""]
                       ELSE Returned("ensure_directory", r)
    /\ UNCHANGED info_pc

(***************************************************************************)
(* str::trim on a sequence of characters                                   *)
(***************************************************************************)
IsSpace(c) == c \in {" ", "\n", "\t"}

RECURSIVE trim_start(_)
trim_start(str) ==
    IF str # <<>> /\ IsSpace(Head(str)) THEN trim_start(Tail(str)) ELSE str

RECURSIVE trim_end(_)
trim_end(str) ==
    IF str # <<>> /\ IsSpace(str[Len(str)]) THEN trim_end(SubSeq(str, 1, Len(str) - 1)) ELSE str

trim(str) == trim_end(trim_start(str))

(***************************************************************************)
(* SshClient::get_system_info, one step per execute_command                *)
(***************************************************************************)
InfoCommands == <<"uname -a", "uptime", "df -h /", "whoami">>

\* struct SystemInfo, built from the four results in trace
SystemInfo(host, results) ==
    [hostname |-> host,
     uname |-> trim(results[1].out.stdout),
     uptime |-> trim(results[2].out.stdout),
     disk_usage |-> trim(results[3].out.stdout),
     current_user |-> trim(results[4].out.stdout)]

GetSystemInfoStart ==
    /\ info_pc = 0
    /\ info_pc' = 1
    /\ trace' = <<>>
    /\ sess_ret' = [call |-> "get_system_info", ok |-> FALSE, val |-> "pending"]

\* a variant that gives up on a command that exits non-zero
GetSystemInfoStepChecked(o) ==
    /\ info_pc \in 1..Len(InfoCommands)
    /\ trace' = Append(trace, Issued(InfoCommands[info_pc], o))
    /\ LET r == execute_command_checked(o)
       IN  IF ~r.ok
           THEN info_pc' = 0 /\ sess_ret' = Returned("get_system_info", r)
           ELSE IF info_pc = Len(InfoCommands)
           THEN /\ info_pc' = 0
                /\ sess_ret' = [call |-> "get_system_info", ok |-> TRUE,
                                val |-> SystemInfo(target.host, trace')]
           ELSE info_pc' = info_pc + 1 /\ UNCHANGED sess_ret

GetSystemInfoStep(o) ==
    /\ info_pc \in 1..Len(InfoCommands)
    /\ trace' = Append(trace, Issued(InfoCommands[info_pc], o))
    /\ LET r == execute_command(o)
       IN  IF ~r.ok
           THEN info_pc' = 0 /\ sess_ret' = Returned("get_system_info", r)
           ELSE IF info_pc = Len(InfoCommands)
           THEN /\ info_pc' = 0
                /\ sess_ret' = [call |-> "get_system_info", ok |-> TRUE,
                                val |-> SystemInfo(target.host, trace')]
           ELSE info_pc' = info_pc + 1 /\ UNCHANGED sess_ret

(***************************************************************************)
(* SshPool.  get_connection takes the pool by `&mut self` and keeps that   *)
(* borrow over the await on connect, so while a call is suspended there no *)
(* other call on the pool can start: inflight holds the suspended call.    *)
(***************************************************************************)
\* the most sessions a pool creates
MaxSessions == 3
\* how many times the deploy command is invoked
MaxRuns == 2

\* the definitions the pool is asked for; the last two render to one key
PoolServers ==
    {[user |-> "u", host |-> "h", port |-> 22],
     [user |-> "u@h", host |-> "x", port |-> 22],
     [user |-> "u", host |-> "h@x", port |-> 22]}

\* format!("{}@{}:{}", server.user, server.host, server.port)
pool_key(server) == server.user \o "@" \o server.host \o ":" \o ToString(server.port)

PoolKeys == {pool_key(sv) : sv \in PoolServers}

\* the entry insert or remove displaces from under key, as a set
Displaced(key) ==
    IF contains_key(connections, key) THEN {[key |-> key, session |-> connections[key]]} ELSE {}

PoolRet(call, key, ok, session, connected) ==
    [call |-> call, key |-> key, ok |-> ok, session |-> session, connected |-> connected]

\* a variant that connects without looking for a cached session
GetConnectionCallAlwaysConnects(server) ==
    /\ inflight = None
    /\ next_session < MaxSessions
    /\ inflight' = Some(server)
    /\ pool_ret' = PoolRet("get_connection", pool_key(server), FALSE, 0, FALSE)
    /\ UNCHANGED <<connections, next_session, live, released>>

\* get_connection up to its await: the key, the lookup, and either the
\* cached session or the start of a connect
GetConnectionCall(server) ==
    /\ inflight = None
    /\ LET key == pool_key(server)
       IN  IF ~contains_key(connections, key)
           THEN /\ next_session < MaxSessions
                /\ inflight' = Some(server)
                /\ pool_ret' = PoolRet("get_connection", key, FALSE, 0, FALSE)
                /\ UNCHANGED <<connections, next_session, live, released>>
           ELSE /\ pool_ret' = PoolRet("get_connection", key, TRUE, connections[key], FALSE)
                /\ UNCHANGED <<connections, inflight, next_session, live, released>>

\* get_connection from the return of connect: `?`, insert, get
GetConnectionResume(connected) ==
    /\ inflight # None
    /\ LET key == pool_key(inflight.val)
       IN  IF connected
           THEN /\ next_session' = next_session + 1
                /\ connections' = insert(connections, key, next_session')
                /\ released' = released \cup Displaced(key)
                /\ live' = [live EXCEPT ![key] = @ + 1]
                /\ pool_ret' = PoolRet("get_connection", key, TRUE, next_session', TRUE)
           ELSE /\ pool_ret' = PoolRet("get_connection", key, FALSE, 0, TRUE)
                /\ UNCHANGED <<connections, next_session, live, released>>
    /\ inflight' = None

\* a variant that clears the whole pool
DisconnectClears(server) ==
    /\ inflight = None
    /\ connections' = EmptyMap
    /\ released' = released \cup {[key |-> k, session |-> connections[k]] : k \in DOMAIN connections}
    /\ live' = [k \in PoolKeys |-> 0]
    /\ pool_ret' = PoolRet("disconnect", pool_key(server), TRUE, 0, FALSE)
    /\ UNCHANGED <<inflight, next_session>>

\* SshPool::disconnect
Disconnect(server) ==
    /\ inflight = None
    /\ LET key == pool_key(server)
       IN  /\ connections' = remove(connections, key)
           /\ released' = released \cup Displaced(key)
           /\ live' = [live EXCEPT ![key] = 0]
           /\ pool_ret' = PoolRet("disconnect", key, TRUE, 0, FALSE)
    /\ UNCHANGED <<inflight, next_session>>

\* SshPool::disconnect_all
DisconnectAll ==
    /\ inflight = None
    /\ connections' = EmptyMap
    /\ released' = released \cup {[key |-> k, session |-> connections[k]] : k \in DOMAIN connections}
    /\ live' = [k \in PoolKeys |-> 0]
    /\ pool_ret' = PoolRet("disconnect_all", "", TRUE, 0, FALSE)
    /\ UNCHANGED <<inflight, next_session>>

(***************************************************************************)
(* Initial states                                                          *)
(***************************************************************************)
Maps == UNION {[K -> ServerDefinition] : K \in SUBSET Names}

\* Config::default()
DefaultConfig ==
    /\ servers = EmptyMap
    /\ default_server = None
    /\ temp_threshold = 80
    /\ battery_warning_level = 20
    /\ key_path = None
    /\ log_level = "info"

\* no connect in progress
ConnIdle ==
    /\ target = [user |-> "u", host |-> "h", port |-> DefaultPort, ssh_key |-> None]
    /\ key_files = {}
    /\ pc = "idle"
    /\ authenticated = FALSE
    /\ attempts = <<>>
    /\ conn_ret = Pending

\* no session call made yet
SessIdle ==
    /\ trace = <<>>
    /\ sess_ret = [call |-> "none", ok |-> TRUE, val |-> ""]
    /\ info_pc = 0

\* SshPool::new
PoolNew ==
    /\ connections = EmptyMap
    /\ inflight = None
    /\ next_session = 0
    /\ live = [k \in PoolKeys |-> 0]
    /\ released = {}
    /\ pool_ret = PoolRet("new", "", TRUE, 0, FALSE)

(***************************************************************************)
(* commands/client/deploy.rs: the deployment plan                          *)
(***************************************************************************)
\* paths are sequences of components; "~/scripts/temp" is <<"~", "scripts", "temp">>
\* Path::parent
parent(path) == SubSeq(path, 1, Len(path) - 1)
\* Path::file_name
file_name(path) == path[Len(path)]

ScriptPairs ==
    << <<(<<"scripts", "temp">>), (<<"~", "scripts", "temp">>)>>,
       <<(<<"scripts", "battery">>), (<<"~", "scripts", "battery">>)>>,
       <<(<<"scripts", "power_diagnostics">>), (<<"~", "scripts", "power_diagnostics">>)>>,
       <<(<<"scripts", "setup_aliases.sh">>), (<<"~", "scripts", "setup_aliases.sh">>)>> >>

\* a variant that looks at config_only before scripts_only
determine_deployment_items_config_first(all, scripts_only, config_only) ==
    IF all \/ (~scripts_only /\ ~config_only)
    THEN << <<"server-setup", << <<(<<"server_setup.sh">>), (<<"~", "server_setup.sh">>)>> >> >>,
            <<"scripts", ScriptPairs>>,
            <<"configs", << <<(<<"caffeinate.plist">>), (<<"~", "Library", "LaunchAgents", "caffeinate.plist">>)>> >> >>,
            <<"services", << <<(<<"docs">>), (<<"~", "docs">>)>> >> >> >>
    ELSE IF config_only
    THEN << <<"configs", << <<(<<"caffeinate.plist">>), (<<"~", "Library", "LaunchAgents", "caffeinate.plist">>)>>,
                            <<(<<"server_setup.sh">>), (<<"~", "server_setup.sh">>)>> >> >> >>
    ELSE << <<"scripts", ScriptPairs>> >>

\* a variant that plans nothing when no flag is given
determine_deployment_items_needs_flag(all, scripts_only, config_only) ==
    IF all
    THEN << <<"server-setup", << <<(<<"server_setup.sh">>), (<<"~", "server_setup.sh">>)>> >> >>,
            <<"scripts", ScriptPairs>>,
            <<"configs", << <<(<<"caffeinate.plist">>), (<<"~", "Library", "LaunchAgents", "caffeinate.plist">>)>> >> >>,
            <<"services", << <<(<<"docs">>), (<<"~", "docs">>)>> >> >> >>
    ELSE IF scripts_only
    THEN << <<"scripts", ScriptPairs>> >>
    ELSE IF config_only
    THEN << <<"configs", << <<(<<"caffeinate.plist">>), (<<"~", "Library", "LaunchAgents", "caffeinate.plist">>)>>,
                            <<(<<"server_setup.sh">>), (<<"~", "server_setup.sh">>)>> >> >> >>
    ELSE <<>>

determine_deployment_items(all, scripts_only, config_only) ==
    IF all \/ (~scripts_only /\ ~config_only)
    THEN << <<"server-setup", << <<(<<"server_setup.sh">>), (<<"~", "server_setup.sh">>)>> >> >>,
            <<"scripts", ScriptPairs>>,
            <<"configs", << <<(<<"caffeinate.plist">>), (<<"~", "Library", "LaunchAgents", "caffeinate.plist">>)>> >> >>,
            <<"services", << <<(<<"docs">>), (<<"~", "docs">>)>> >> >> >>
    ELSE IF scripts_only
    THEN << <<"scripts", ScriptPairs>> >>
    ELSE IF config_only
    THEN << <<"configs", << <<(<<"caffeinate.plist">>), (<<"~", "Library", "LaunchAgents", "caffeinate.plist">>)>>,
                            <<(<<"server_setup.sh">>), (<<"~", "server_setup.sh">>)>> >> >> >>
    ELSE <<>>

\* the local paths the plans name
LocalPaths ==
    {<<"server_setup.sh">>, <<"scripts", "temp">>, <<"scripts", "battery">>, <<"scripts", "power_diagnostics">>,
     <<"scripts", "setup_aliases.sh">>, <<"caffeinate.plist">>, <<"docs">>}

\* resolve_or_create_server: the set holds the entries resolve_server may give
resolve_or_create_server(host, user, port, m) ==
    {IF r.some THEN [ok |-> TRUE, val |-> [user |-> r.val.user, host |-> r.val.host, port |-> r.val.port]]
     ELSE IF user.some THEN [ok |-> TRUE, val |-> [user |-> user.val, host |-> host, port |-> port]]
     ELSE [ok |-> FALSE, val |-> "User not specified and server not found in config"]
       : r \in resolve_server(m, host)}

\* one entry of what the command did
Event(op, local, remote, res) == [op |-> op, cat |-> d_cat, local |-> local, remote |-> remote, res |-> res]
\* the session a connect is for, as a path-like triple
Endpoint(sv) == <<sv.user, sv.host, ToString(sv.port)>>

\* neither command has been started
DeployIdle ==
    /\ local_files = {}
    /\ local_dirs = {}
    /\ d_in = [host |-> "", user |-> None, port |-> DefaultPort,
               all |-> FALSE, scripts_only |-> FALSE, config_only |-> FALSE]
    /\ d_pc = "idle"
    /\ d_server = None
    /\ deployment_items = <<>>
    /\ d_cat = 0
    /\ d_item = 0
    /\ pb_pos = 0
    /\ d_log = <<>>
    /\ d_ret = [ok |-> TRUE, val |-> "pending"]
    /\ m_in = [host |-> "", action |-> "none"]
    /\ m_pc = "off"
    /\ m_ret = [ok |-> TRUE, val |-> "pending"]
    /\ d_runs = 0

(***************************************************************************)
(* commands/client/deploy.rs: execute_deploy                               *)
(***************************************************************************)
d_inputs == <<local_files, local_dirs, d_in, m_in, d_runs>>
d_loop == <<d_cat, d_item, pb_pos>>
manage == <<m_pc, m_ret>>

\* what a remote command of the deployment may come to
DeployOutcomes ==
    {[kind |-> "fail", step |-> "channel_session"],
     [kind |-> "exit", exit_code |-> 0, stdout |-> <<>>],
     [kind |-> "exit", exit_code |-> 1, stdout |-> <<>>]}
\* what the echo of test_connection may come to; the echoed text is one element
EchoOutcomes ==
    {[kind |-> "fail", step |-> "channel_session"],
     [kind |-> "exit", exit_code |-> 0, stdout |-> <<"connection test", "\n">>],
     [kind |-> "exit", exit_code |-> 0, stdout |-> <<>>],
     [kind |-> "exit", exit_code |-> 1, stdout |-> <<"connection test", "\n">>]}
\* what scp_send and the writes of copy_file may come to
CopyOutcomes == {"ok", "fail"}

\* how the log names the result of execute_command
res_of(o) ==
    LET r == execute_command(o)
    IN  IF ~r.ok THEN "fail" ELSE IF r.val.success THEN "ok" ELSE "nonzero"

\* SshClient::test_connection
test_connection(o) ==
    LET r == execute_command(o)
    IN  IF ~r.ok THEN [ok |-> FALSE, val |-> r.val]
        ELSE IF r.val.success /\ trim(r.val.stdout) = <<"connection test">>
             THEN [ok |-> TRUE, val |-> ""]
             ELSE [ok |-> FALSE, val |-> "Connection test failed"]

\* the match on the category of the loop of execute_deploy
Entry(items, c) ==
    IF c > Len(items) THEN "finish"
    ELSE CASE items[c][1] = "server-setup" -> "setup_check"
           [] items[c][1] = "scripts" -> "scripts_ensure"
           [] items[c][1] = "configs" -> "configs_item"
           [] items[c][1] = "services" -> "services_item"

files == deployment_items[d_cat][2]
local_path == files[d_item][1]
remote_path == files[d_item][2]

\* a `?` or bail! inside the loop: execute_deploy returns the error
Abort(e) ==
    /\ d_pc' = "done"
    /\ d_ret' = [ok |-> FALSE, val |-> e]
    /\ UNCHANGED d_loop

\* the category function returned Ok: pb.inc(1) and the next category
FinishCategory ==
    /\ d_cat' = d_cat + 1
    /\ d_item' = 1
    /\ pb_pos' = pb_pos + 1
    /\ d_pc' = Entry(deployment_items, d_cat + 1)
    /\ UNCHANGED d_ret

\* a variant that passes over the pair after the one just handled
NextItemSkipsOne(item_pc) ==
    IF d_item + 1 < Len(files)
    THEN /\ d_item' = d_item + 2
         /\ d_pc' = item_pc
         /\ UNCHANGED <<d_cat, pb_pos, d_ret>>
    ELSE FinishCategory

\* the end of the body of a `for (local_path, remote_path) in files`
NextItem(item_pc) ==
    IF d_item < Len(files)
    THEN /\ d_item' = d_item + 1
         /\ d_pc' = item_pc
         /\ UNCHANGED <<d_cat, pb_pos, d_ret>>
    ELSE FinishCategory

\* the step stays inside the pair it is at
Goto(next_pc) ==
    /\ d_pc' = next_pc
    /\ UNCHANGED <<d_loop, d_ret>>

DeployRest == UNCHANGED <<d_inputs, d_server, deployment_items, manage>> /\ DeployFrame

DeployResolve ==
    /\ d_pc = "resolve"
    /\ \E r \in resolve_or_create_server(d_in.host, d_in.user, d_in.port, servers) :
          IF r.ok
          THEN d_server' = Some(r.val) /\ Goto("connect")
          ELSE d_server' = None /\ Abort(r.val)
    /\ UNCHANGED <<d_inputs, deployment_items, d_log, manage>>
    /\ DeployFrame

DeployConnect(o) ==
    /\ d_pc = "connect"
    /\ d_log' = Append(d_log, Event("connect", <<>>, Endpoint(d_server.val), o))
    /\ IF o = "ok" THEN Goto("test") ELSE Abort("connect")
    /\ DeployRest

\* a variant that goes on whatever the connection test says
DeployTestConnectionIgnored(o) ==
    /\ d_pc = "test"
    /\ d_log' = Append(d_log, Event("test", <<>>, <<>>, IF test_connection(o).ok THEN "ok" ELSE "fail"))
    /\ Goto("plan")
    /\ DeployRest

DeployTestConnection(o) ==
    /\ d_pc = "test"
    /\ d_log' = Append(d_log, Event("test", <<>>, <<>>, IF test_connection(o).ok THEN "ok" ELSE "fail"))
    /\ IF test_connection(o).ok THEN Goto("plan") ELSE Abort(test_connection(o).val)
    /\ DeployRest

DeployPlan ==
    /\ d_pc = "plan"
    /\ LET items == determine_deployment_items(d_in.all, d_in.scripts_only, d_in.config_only)
       IN  /\ deployment_items' = items
           /\ IF items = <<>>
              THEN d_pc' = "done" /\ d_ret' = [ok |-> TRUE, val |-> "No deployment items specified"]
                   /\ UNCHANGED d_loop
              ELSE d_pc' = Entry(items, 1) /\ d_cat' = 1 /\ d_item' = 1 /\ pb_pos' = 0 /\ UNCHANGED d_ret
    /\ UNCHANGED <<d_inputs, d_server, d_log, manage>>
    /\ DeployFrame

\* deploy_server_setup
DeployServerSetupCheck ==
    /\ d_pc = "setup_check"
    /\ IF <<"server_setup.sh">> \in local_files
       THEN Goto("setup_copy")
       ELSE Abort("server_setup.sh not found in current directory")
    /\ UNCHANGED d_log
    /\ DeployRest

DeployServerSetupCopy(o) ==
    /\ d_pc = "setup_copy"
    /\ d_log' = Append(d_log, Event("copy", <<"server_setup.sh">>, <<"~", "server_setup.sh">>, o))
    /\ IF o = "ok" THEN Goto("setup_chmod") ELSE Abort("copy_file")
    /\ DeployRest

DeployServerSetupChmod(o) ==
    /\ d_pc = "setup_chmod"
    /\ d_log' = Append(d_log, Event("chmod", <<>>, <<"~", "server_setup.sh">>, res_of(o)))
    /\ IF execute_command(o).ok THEN FinishCategory ELSE Abort(execute_command(o).val)
    /\ DeployRest

\* deploy_scripts
DeployScriptsEnsure(o) ==
    /\ d_pc = "scripts_ensure"
    /\ d_log' = Append(d_log, Event("mkdir", <<>>, <<"~", "scripts">>, res_of(o)))
    /\ IF execute_command(o).ok THEN Goto("scripts_item") ELSE Abort(execute_command(o).val)
    /\ DeployRest

DeployScriptsItem ==
    /\ d_pc = "scripts_item"
    /\ IF local_path \notin local_files
       THEN d_log' = Append(d_log, Event("skip", local_path, remote_path, "skip")) /\ NextItem("scripts_item")
       ELSE UNCHANGED d_log /\ Goto("scripts_copy")
    /\ DeployRest

\* a variant that makes every transferred script executable
DeployScriptsCopyAlwaysChmod(o) ==
    /\ d_pc = "scripts_copy"
    /\ d_log' = Append(d_log, Event("copy", local_path, remote_path, o))
    /\ IF o # "ok" THEN Abort("copy_file") ELSE Goto("scripts_chmod")
    /\ DeployRest

\* a variant that treats a failed transfer like a missing source
DeployScriptsCopyContinues(o) ==
    /\ d_pc = "scripts_copy"
    /\ d_log' = Append(d_log, Event("copy", local_path, remote_path, o))
    /\ IF o # "ok" THEN NextItem("scripts_item")
       ELSE IF file_name(local_path) # "setup_aliases.sh" THEN Goto("scripts_chmod")
       ELSE NextItem("scripts_item")
    /\ DeployRest

DeployScriptsCopy(o) ==
    /\ d_pc = "scripts_copy"
    /\ d_log' = Append(d_log, Event("copy", local_path, remote_path, o))
    /\ IF o # "ok" THEN Abort("copy_file")
       ELSE IF file_name(local_path) # "setup_aliases.sh" THEN Goto("scripts_chmod")
       ELSE NextItem("scripts_item")
    /\ DeployRest

DeployScriptsChmod(o) ==
    /\ d_pc = "scripts_chmod"
    /\ d_log' = Append(d_log, Event("chmod", <<>>, remote_path, res_of(o)))
    /\ IF execute_command(o).ok THEN NextItem("scripts_item") ELSE Abort(execute_command(o).val)
    /\ DeployRest

\* deploy_configs
DeployConfigsItem ==
    /\ d_pc = "configs_item"
    /\ IF local_path \notin local_files
       THEN d_log' = Append(d_log, Event("skip", local_path, remote_path, "skip")) /\ NextItem("configs_item")
       ELSE UNCHANGED d_log /\ Goto("configs_mkdir")
    /\ DeployRest

DeployConfigsMkdir(o) ==
    /\ d_pc = "configs_mkdir"
    /\ d_log' = Append(d_log, Event("mkdir", <<>>, parent(remote_path), res_of(o)))
    /\ IF execute_command(o).ok THEN Goto("configs_copy") ELSE Abort(execute_command(o).val)
    /\ DeployRest

DeployConfigsCopy(o) ==
    /\ d_pc = "configs_copy"
    /\ d_log' = Append(d_log, Event("copy", local_path, remote_path, o))
    /\ IF o = "ok" THEN NextItem("configs_item") ELSE Abort("copy_file")
    /\ DeployRest

\* deploy_services
DeployServicesItem ==
    /\ d_pc = "services_item"
    /\ IF local_path \notin local_files
       THEN d_log' = Append(d_log, Event("skip", local_path, remote_path, "skip")) /\ NextItem("services_item")
       ELSE UNCHANGED d_log /\ Goto("services_copy")
    /\ DeployRest

DeployServicesCopy(o) ==
    /\ d_pc = "services_copy"
    /\ d_log' = Append(d_log, Event(IF local_path \in local_dirs THEN "copy_directory" ELSE "copy",
                                    local_path, remote_path, o))
    /\ IF o = "ok" THEN NextItem("services_item") ELSE Abort("copy")
    /\ DeployRest

\* the loop is over: pb.finish_with_message and Ok(())
DeployFinish ==
    /\ d_pc = "finish"
    /\ d_pc' = "done"
    /\ d_ret' = [ok |-> TRUE, val |-> "Plan 10 deployed successfully!"]
    /\ UNCHANGED <<d_loop, d_log>>
    /\ DeployRest

\* a variant that takes the run up again at the category that failed
DeployRetryResumes ==
    /\ m_pc = "off"
    /\ d_pc = "done"
    /\ ~d_ret.ok
    /\ d_runs < MaxRuns
    /\ d_runs' = d_runs + 1
    /\ d_pc' = IF deployment_items = <<>> THEN "resolve" ELSE Entry(deployment_items, d_cat)
    /\ d_item' = IF deployment_items = <<>> THEN 0 ELSE 1
    /\ d_ret' = [ok |-> TRUE, val |-> "pending"]
    /\ UNCHANGED <<d_server, deployment_items, d_cat, pb_pos, d_log>>
    /\ UNCHANGED <<local_files, local_dirs, d_in, m_in, manage>>
    /\ DeployFrame

\* the deploy command is invoked again after a run that returned an error:
\* a new process, with the same arguments in the same directory
DeployRetry ==
    /\ m_pc = "off"
    /\ d_pc = "done"
    /\ ~d_ret.ok
    /\ d_runs < MaxRuns
    /\ d_runs' = d_runs + 1
    /\ d_pc' = "resolve"
    /\ d_server' = None
    /\ deployment_items' = <<>>
    /\ d_cat' = 0
    /\ d_item' = 0
    /\ pb_pos' = 0
    /\ d_log' = <<>>
    /\ d_ret' = [ok |-> TRUE, val |-> "pending"]
    /\ UNCHANGED <<local_files, local_dirs, d_in, m_in, manage>>
    /\ DeployFrame

(***************************************************************************)
(* commands/client/manage.rs: execute_manage                               *)
(***************************************************************************)
ManageActions == {"start", "update"}
ManageRest == UNCHANGED <<d_inputs, d_server, deployment_items, d_loop>> /\ DeployFrame

ManageResolve ==
    /\ m_pc = "resolve"
    /\ \E r \in resolve_server(servers, m_in.host) :
          IF r.some
          THEN /\ d_server' = Some([user |-> r.val.user, host |-> r.val.host, port |-> r.val.port])
               /\ m_pc' = "connect"
               /\ UNCHANGED m_ret
          ELSE /\ d_server' = None
               /\ m_pc' = "done"
               /\ m_ret' = [ok |-> FALSE, val |-> "Server not found"]
    /\ UNCHANGED <<d_inputs, deployment_items, d_loop, d_pc, d_ret, d_log>>
    /\ DeployFrame

ManageConnect(o) ==
    /\ m_pc = "connect"
    /\ d_log' = Append(d_log, Event("connect", <<>>, Endpoint(d_server.val), o))
    /\ IF o = "ok"
       THEN m_pc' = "action" /\ UNCHANGED m_ret
       ELSE m_pc' = "done" /\ m_ret' = [ok |-> FALSE, val |-> "connect"]
    /\ UNCHANGED <<d_pc, d_ret>>
    /\ ManageRest

\* ManageActions::Start
ManageStart(o) ==
    /\ m_pc = "action"
    /\ m_in.action = "start"
    /\ d_log' = Append(d_log, Event("exec", <<>>, <<"launchctl load">>, res_of(o)))
    /\ m_pc' = "done"
    /\ m_ret' = IF execute_command(o).ok THEN [ok |-> TRUE, val |-> ""]
                ELSE [ok |-> FALSE, val |-> execute_command(o).val]
    /\ UNCHANGED <<d_pc, d_ret>>
    /\ ManageRest

\* ManageActions::Update: the call of execute_deploy
ManageUpdate ==
    /\ m_pc = "action"
    /\ m_in.action = "update"
    /\ d_in' = [host |-> m_in.host, user |-> None, port |-> 22,
                all |-> TRUE, scripts_only |-> FALSE, config_only |-> FALSE]
    /\ d_pc' = "resolve"
    /\ m_pc' = "deploying"
    /\ UNCHANGED <<local_files, local_dirs, m_in, d_runs, d_server, deployment_items, d_loop, d_log, d_ret, m_ret>>
    /\ DeployFrame

\* ManageActions::Update: execute_deploy has returned
ManageUpdateReturn ==
    /\ m_pc = "deploying"
    /\ d_pc = "done"
    /\ m_pc' = "done"
    /\ m_ret' = IF d_ret.ok THEN [ok |-> TRUE, val |-> "Plan 10 updated successfully"] ELSE d_ret
    /\ UNCHANGED <<d_pc, d_ret, d_log>>
    /\ ManageRest

(***************************************************************************)
(* ssh.rs: test_connectivity                                               *)
(***************************************************************************)
\* a variant that reports a failed echo test as false
TestConnectivityFalseOnFailure(o) ==
    /\ pc = "done"
    /\ sess_ret.call = "none"
    /\ IF conn_ret.ok
       THEN /\ trace' = <<Issued("echo 'connection test'", o)>>
            /\ sess_ret' = [call |-> "test_connectivity", ok |-> TRUE, val |-> test_connection(o).ok]
       ELSE /\ trace' = <<>>
            /\ sess_ret' = [call |-> "test_connectivity", ok |-> TRUE, val |-> FALSE]
    /\ UNCHANGED <<info_pc, config, ret, conn, pool, deploy, copydir>>

\* test_connectivity, from the return of its SshClient::connect on
TestConnectivity(o) ==
    /\ pc = "done"
    /\ sess_ret.call = "none"
    /\ IF conn_ret.ok
       THEN /\ trace' = <<Issued("echo 'connection test'", o)>>
            /\ sess_ret' = IF test_connection(o).ok
                           THEN [call |-> "test_connectivity", ok |-> TRUE, val |-> TRUE]
                           ELSE [call |-> "test_connectivity", ok |-> FALSE, val |-> test_connection(o).val]
       ELSE /\ trace' = <<>>
            /\ sess_ret' = [call |-> "test_connectivity", ok |-> TRUE, val |-> FALSE]
    /\ UNCHANGED <<info_pc, config, ret, conn, pool, deploy, copydir>>

(***************************************************************************)
(* ssh.rs: copy_directory                                                  *)
(***************************************************************************)
\* the most entries a walk yields
MaxEntries == 4
\* what may lie under local_dir, by path relative to it; the empty path is local_dir itself
TreeEntries ==
    {[path |-> <<>>, kind |-> "dir"],
     [path |-> <<"a">>, kind |-> "file"],
     [path |-> <<"d">>, kind |-> "dir"],
     [path |-> <<"d", "b">>, kind |-> "file"],
     [path |-> <<"s">>, kind |-> "other"],
     [path |-> <<"e">>, kind |-> "error"]}
\* the walks: local_dir first, no entry twice, a directory before what it holds
Walks ==
    {w \in UNION {[1..n -> TreeEntries] : n \in 1..MaxEntries} :
        /\ w[1].path = <<>>
        /\ \A i, j \in DOMAIN w : i # j => w[i] # w[j]
        /\ \A j \in DOMAIN w : Len(w[j].path) = 2 => \E i \in 1..(j - 1) : w[i].path = <<w[j].path[1]>>}
\* the remote_dir argument
RemoteDir == <<"~", "docs">>
\* format!("{}/{}", remote_dir, relative_path)
remote_of(entry) == RemoteDir \o entry.path

CdEvent(op, remote, res) == [op |-> op, remote |-> remote, res |-> res]
CdReturn(r) ==
    /\ cd_pc' = "done"
    /\ cd_ret' = r
    /\ UNCHANGED cd_i

\* the mkdir -p of remote_dir
CopyDirectoryStart(o) ==
    /\ cd_pc = "start"
    /\ cd_log' = Append(cd_log, CdEvent("mkdir", RemoteDir, res_of(o)))
    /\ IF execute_command(o).ok
       THEN cd_pc' = "walk" /\ cd_i' = 1 /\ UNCHANGED cd_ret
       ELSE CdReturn([ok |-> FALSE, val |-> execute_command(o).val])
    /\ UNCHANGED <<cd_walk, cd_remote>>
    /\ CopyDirFrame

\* the next entry of the walk: `entry?` and `is_file()`
CopyDirectoryEntry ==
    /\ cd_pc = "walk"
    /\ cd_i <= Len(cd_walk)
    /\ IF cd_walk[cd_i].kind = "error" THEN CdReturn([ok |-> FALSE, val |-> "walkdir"])
       ELSE IF cd_walk[cd_i].kind = "file" THEN cd_pc' = "mkdir" /\ UNCHANGED <<cd_i, cd_ret>>
       ELSE cd_i' = cd_i + 1 /\ UNCHANGED <<cd_pc, cd_ret>>
    /\ UNCHANGED <<cd_walk, cd_log, cd_remote>>
    /\ CopyDirFrame

\* the mkdir -p of the parent of the file's remote path
CopyDirectoryMkdir(o) ==
    /\ cd_pc = "mkdir"
    /\ cd_log' = Append(cd_log, CdEvent("mkdir", parent(remote_of(cd_walk[cd_i])), res_of(o)))
    /\ IF execute_command(o).ok
       THEN cd_pc' = "copy" /\ UNCHANGED <<cd_i, cd_ret>>
       ELSE CdReturn([ok |-> FALSE, val |-> execute_command(o).val])
    /\ UNCHANGED <<cd_walk, cd_remote>>
    /\ CopyDirFrame

\* a variant that removes what it transferred when a transfer fails
CopyDirectoryCopyRollsBack(o) ==
    /\ cd_pc = "copy"
    /\ cd_log' = Append(cd_log, CdEvent("copy", remote_of(cd_walk[cd_i]), o))
    /\ IF o = "ok"
       THEN /\ cd_remote' = cd_remote \cup {remote_of(cd_walk[cd_i])}
            /\ cd_pc' = "walk" /\ cd_i' = cd_i + 1 /\ UNCHANGED cd_ret
       ELSE /\ cd_remote' = {}
            /\ CdReturn([ok |-> FALSE, val |-> "copy_file"])
    /\ UNCHANGED cd_walk
    /\ CopyDirFrame

\* the copy_file of the entry
CopyDirectoryCopy(o) ==
    /\ cd_pc = "copy"
    /\ cd_log' = Append(cd_log, CdEvent("copy", remote_of(cd_walk[cd_i]), o))
    /\ IF o = "ok"
       THEN /\ cd_remote' = cd_remote \cup {remote_of(cd_walk[cd_i])}
            /\ cd_pc' = "walk" /\ cd_i' = cd_i + 1 /\ UNCHANGED cd_ret
       ELSE /\ UNCHANGED cd_remote
            /\ CdReturn([ok |-> FALSE, val |-> "copy_file"])
    /\ UNCHANGED cd_walk
    /\ CopyDirFrame

\* the walk is over: Ok(())
CopyDirectoryFinish ==
    /\ cd_pc = "walk"
    /\ cd_i > Len(cd_walk)
    /\ CdReturn([ok |-> TRUE, val |-> ""])
    /\ UNCHANGED <<cd_walk, cd_log, cd_remote>>
    /\ CopyDirFrame

\* copy_directory is not running
CopyDirIdle ==
    /\ cd_walk = <<>>
    /\ cd_pc = "idle"
    /\ cd_i = 0
    /\ cd_log = <<>>
    /\ cd_remote = {}
    /\ cd_ret = [ok |-> TRUE, val |-> "pending"]

RestIdle == SessIdle /\ PoolNew /\ DeployIdle /\ CopyDirIdle

\* SshClient::connect has returned a session for target
ConnEstablished ==
    /\ target = [user |-> "u", host |-> "h", port |-> DefaultPort, ssh_key |-> None]
    /\ key_files = {}
    /\ pc = "done"
    /\ authenticated = TRUE
    /\ attempts = <<[method |-> "agent", path |-> <<>>, result |-> "ok_auth"]>>
    /\ conn_ret = ConnOk

NoCall == [op |-> "none", arg |-> "", ok |-> TRUE, val |-> None]

\* Config::load of an existing file: whatever the file holds
InitLoaded ==
    /\ servers \in Maps
    /\ default_server \in OptNames
    /\ \E th \in Thresholds : temp_threshold = th[1] /\ battery_warning_level = th[2]
    /\ key_path = None
    /\ log_level = "info"
    /\ ret = NoCall
    /\ ConnIdle
    /\ RestIdle

\* a loaded configuration whose thresholds are the default ones
InitRegistry ==
    /\ InitLoaded
    /\ temp_threshold = 80
    /\ battery_warning_level = 20

\* Config::load without a file: Config::default()
InitDefault ==
    /\ DefaultConfig
    /\ ret = NoCall
    /\ ConnIdle
    /\ RestIdle

\* a configuration whose default-target reference is none or an existing key
InitWellFormed ==
    /\ InitRegistry
    /\ default_server.some => contains_key(servers, default_server.val)

\* SshClient::connect is entered with a target, a global key path and a disk
InitConnect ==
    /\ servers = EmptyMap
    /\ default_server = None
    /\ temp_threshold = 80
    /\ battery_warning_level = 20
    /\ key_path \in OptPaths
    /\ log_level = "info"
    /\ ret = NoCall
    /\ target \in [user : {"u"}, host : {"h"}, port : {DefaultPort}, ssh_key : OptPaths]
    /\ key_files \in SUBSET KeyFiles
    /\ pc = "tcp"
    /\ authenticated = FALSE
    /\ attempts = <<>>
    /\ conn_ret = Pending
    /\ RestIdle

(***************************************************************************)
(* Specifications                                                          *)
(***************************************************************************)
\* the environment: each variable unset or set to one value
EnvHosts == {None, Some("h")}
EnvUsers == {None, Some("u")}
EnvPorts == {None, Some(0)}
EnvPaths == {None, Some(<<"keys", "k1">>)}
EnvLevels == {None, Some("debug")}

Next ==
    \/ \E d \in NewServers : AddServer(d) /\ RegistryFrame
    \/ \E n \in Names : RemoveServer(n) /\ RegistryFrame
    \/ \E id \in Identifiers : ResolveServer(id) /\ RegistryFrame

\* add, remove and resolve on a loaded configuration with the default thresholds
Spec == InitRegistry /\ [][Next]_vars

NextValidate ==
    \/ Validate /\ RegistryFrame

\* validate on a loaded (possibly hand-written) configuration
SpecValidate == InitLoaded /\ [][NextValidate]_vars

NextDefault ==
    \/ \E d \in NewServers : AddServer(d) /\ RegistryFrame
    \/ \E n \in Names : RemoveServer(n) /\ RegistryFrame

\* add_server and remove_server from the default configuration
SpecDefault == InitDefault /\ [][NextDefault]_vars

NextWellFormed ==
    \/ \E d \in NewServers : AddServer(d) /\ RegistryFrame
    \/ \E n \in Names : RemoveServer(n) /\ RegistryFrame
    \/ \E n \in Names, t \in Times : UpdateServerLastSeen(n, t) /\ RegistryFrame
    \/ \E h \in EnvHosts, u \in EnvUsers, p \in EnvPorts, k \in EnvPaths, l \in EnvLevels :
          MergeEnvVars(h, u, p, k, l) /\ RegistryFrame

\* the mutating operations from a configuration with a sound default target
SpecWellFormed == InitWellFormed /\ [][NextWellFormed]_vars

NextConnect ==
    \/ \E o \in {"ok", "timeout", "refused"} : ConnectTcp(o) /\ ConnectFrame
    \/ \E b \in BOOLEAN : Handshake(b) /\ ConnectFrame
    \/ \E o \in AuthOutcomes : KeyAuth(o) /\ ConnectFrame
    \/ \E o \in AuthOutcomes : AgentAuth(o) /\ ConnectFrame
    \/ FinalCheck /\ ConnectFrame

\* one run of SshClient::connect
SpecConnect == InitConnect /\ [][NextConnect]_vars

\* the remote paths the existence checks are asked about
RemotePaths == {"~/server_setup.sh", "~/scripts"}
\* the commands callers run through execute_command
Commands == {"uptime", "chmod +x ~/server_setup.sh"}

\* a connected session, no call made yet
InitSession ==
    /\ DefaultConfig
    /\ ret = NoCall
    /\ ConnEstablished
    /\ RestIdle

NextSession ==
    \/ \E c \in Commands, o \in ExecOutcomes : ExecuteCommand(c, o) /\ SessionFrame
    \/ \E c \in Commands, t \in Timeouts, o \in ExecOutcomes : ExecuteCommandWithTimeout(c, t, o) /\ SessionFrame
    \/ \E p \in RemotePaths, o \in ExecOutcomes : FileExists(p, o) /\ SessionFrame
    \/ \E p \in RemotePaths, o \in ExecOutcomes : DirectoryExists(p, o) /\ SessionFrame
    \/ \E p \in RemotePaths, o \in ExecOutcomes : EnsureDirectory(p, o) /\ SessionFrame
    \/ GetSystemInfoStart /\ SessionFrame
    \/ \E o \in ExecOutcomes : GetSystemInfoStep(o) /\ SessionFrame

\* the calls of a connected SshClient
SpecSession == InitSession /\ [][NextSession]_vars

\* a new pool over the default configuration
InitPool ==
    /\ DefaultConfig
    /\ ret = NoCall
    /\ ConnIdle
    /\ RestIdle

NextPool ==
    \/ \E sv \in PoolServers : GetConnectionCall(sv) /\ PoolFrame
    \/ \E b \in BOOLEAN : GetConnectionResume(b) /\ PoolFrame
    \/ \E sv \in PoolServers : Disconnect(sv) /\ PoolFrame
    \/ DisconnectAll /\ PoolFrame

\* the calls on one SshPool
SpecPool == InitPool /\ [][NextPool]_vars

(***************************************************************************)
(* Properties of the registry                                              *)
(***************************************************************************)
HostMatches(id) == {s \in values(servers) : s.host = id}

\* C1: resolve_server(identifier) returns the definition stored under the key
\* identifier when that key exists, whatever hosts other definitions have;
\* otherwise some stored definition whose host is identifier when there is
\* one; otherwise none.
C1_ResolveNameThenHost ==
    ret.op = "resolve_server" =>
        IF contains_key(servers, ret.arg)
        THEN ret.val = Some(servers[ret.arg])
        ELSE IF HostMatches(ret.arg) # {}
        THEN ret.val.some /\ ret.val.val \in HostMatches(ret.arg)
        ELSE ret.val = None

\* a resolve by a name that is also the host of a different definition
C1_Witness ==
    /\ ret.op = "resolve_server"
    /\ contains_key(servers, ret.arg)
    /\ \E s \in HostMatches(ret.arg) : s # servers[ret.arg]

\* C2: add_server with a name that is already a key returns an error and
\* leaves every field of the configuration as it was.
C2_DuplicateAddRejected ==
    [][(ret'.op = "add_server" /\ contains_key(servers, ret'.arg))
          => (~ret'.ok /\ ret'.val = Some("already exists") /\ UNCHANGED config)]_vars

\* a rejected add of the name the default target refers to
C2_Witness ==
    /\ ret.op = "add_server" /\ ~ret.ok /\ ret.arg = "a"
    /\ contains_key(servers, "a")
    /\ default_server = Some("a")

\* C3: add_server(d) with a new name succeeds, resolve_server(d.name) on the
\* result gives exactly d, and every entry that was there is unchanged.
C3_AddThenResolve ==
    [][\A d \in NewServers :
          (~contains_key(servers, d.name) /\ AddServer(d))
             => /\ ret'.ok
                /\ resolve_server(servers', d.name) = {Some(d)}
                /\ DOMAIN servers' = (DOMAIN servers) \cup {d.name}
                /\ \A k \in DOMAIN servers : servers'[k] = servers[k]]_vars

\* a successful add next to an entry whose host is the new name
C3_Witness ==
    /\ ret.op = "add_server" /\ ret.ok
    /\ contains_key(servers, ret.arg)
    /\ \E k \in DOMAIN servers : k # ret.arg /\ servers[k].host = ret.arg

\* C4: remove_server with a name that is not a key returns the not-found
\* error and leaves the mapping and the default target as they were.
C4_RemoveAbsent ==
    [][(ret'.op = "remove_server" /\ ~contains_key(servers, ret'.arg))
          => (~ret'.ok /\ ret'.val = Some("not found") /\ UNCHANGED <<servers, default_server>>)]_vars

\* a rejected remove of an absent name that the default target refers to
C4_Witness ==
    /\ ret.op = "remove_server" /\ ~ret.ok /\ ret.arg = "a"
    /\ default_server = Some("a")
    /\ DOMAIN servers # {}

\* C5: a successful remove_server(name) turns the default target into none
\* exactly when it was name, and otherwise leaves it as it was.
C5_RemoveClearsOwnDefault ==
    [][(ret'.op = "remove_server" /\ ret'.ok)
          => /\ default_server' = IF default_server = Some(ret'.arg) THEN None ELSE default_server
             /\ ~contains_key(servers', ret'.arg)]_vars

\* a successful remove of a name other than the default target
C5_Witness ==
    /\ ret.op = "remove_server" /\ ret.ok /\ ret.arg = "a"
    /\ default_server = Some("env")
    /\ contains_key(servers, "env")

\* C6: from the default configuration, after any add_server and remove_server
\* calls, validate() succeeds.
C6_ValidateAfterAddRemove ==
    validate(servers, default_server, temp_threshold, battery_warning_level) = {<<"ok", "">>}

\* the four faults of the registry validate() is to report
KeyNameMismatch == \E k \in DOMAIN servers : servers[k].name # k
EmptyHostOrUser == \E k \in DOMAIN servers : servers[k].host = "" \/ servers[k].user = ""
PortOutOfRange == \E k \in DOMAIN servers : servers[k].port \notin 1..65535
DanglingDefault == default_server.some /\ default_server.val \notin DOMAIN servers
RegistryFault == KeyNameMismatch \/ EmptyHostOrUser \/ PortOutOfRange \/ DanglingDefault

\* C7: validate() fails whenever the registry has a key/name mismatch, an
\* empty host or user, a port outside 1..65535 or a dangling default target,
\* succeeds only when it has none of them, and whether it fails does not
\* depend on the order in which the servers are visited.
C7_ValidateRejectsFaults ==
    /\ (ret.op = "validate" /\ RegistryFault) => ~ret.ok
    /\ \A r1, r2 \in validate(servers, default_server, temp_threshold, battery_warning_level) :
          (r1[1] = "ok") <=> (r2[1] = "ok")

\* a failed validate() on a registry whose only fault is a port of 0
C7_Witness ==
    /\ ret.op = "validate" /\ ~ret.ok
    /\ PortOutOfRange
    /\ ~KeyNameMismatch /\ ~EmptyHostOrUser /\ ~DanglingDefault
    /\ temp_threshold = 80 /\ battery_warning_level = 20

\* C8: from a configuration whose default target is none or an existing key,
\* add_server, remove_server, update_server_last_seen and merge_env_vars keep
\* the default target none or an existing key.
C8_DefaultTargetExists ==
    default_server.some => contains_key(servers, default_server.val)

\* the entry merge_env_vars made the default target has been removed again
C8_Witness ==
    /\ ret.op = "remove_server" /\ ret.ok /\ ret.arg = "env"
    /\ default_server = None
    /\ log_level = "debug"
    /\ DOMAIN servers # {}

(***************************************************************************)
(* Properties of connect                                                   *)
(***************************************************************************)
Attempted(method) == \E i \in 1..Len(attempts) : attempts[i].method = method

\* C9: connect tries the private key before the agent, asks the agent only
\* when the session is not authenticated after the key step, and makes no
\* authentication attempt after one has succeeded.
C9_AuthOrder ==
    /\ Len(attempts) <= 2
    /\ \A i \in 1..Len(attempts) :
          /\ attempts[i].method = "key" => i = 1
          /\ attempts[i].method = "agent" => \A j \in 1..Len(attempts) : j # i => attempts[j].method = "key"
          /\ \A j \in 1..(i - 1) : attempts[j].result # "ok_auth"

\* connect has returned a session after the key alone authenticated it
C9_Witness ==
    /\ pc = "done" /\ conn_ret = ConnOk
    /\ Len(attempts) = 1
    /\ attempts[1].method = "key" /\ attempts[1].result = "ok_auth"

\* C10: when the key is tried and does not authenticate, connect goes on to
\* the agent, and the authentication-failed error naming user and host is
\* returned only when neither method succeeded.
C10_KeyFailureFallsBack ==
    pc = "done" =>
        /\ (\E i \in 1..Len(attempts) : attempts[i].method = "key" /\ attempts[i].result # "ok_auth")
              => Attempted("agent")
        /\ conn_ret = ConnErr(<<"Authentication failed", target.user, target.host>>)
              => \A i \in 1..Len(attempts) : attempts[i].result # "ok_auth"


\* the key path a connect is to use: the target's own when set, else the global one
PreferredKey == IF target.ssh_key # None THEN target.ssh_key ELSE key_path
PreferredKeyMissing == PreferredKey # None /\ tilde(PreferredKey.val) \notin key_files

\* C11: when the key path chosen for a connect (the target's own if set,
\* otherwise the global one) names no file on disk, the key step makes no
\* authentication attempt and raises no error and connect goes on to the
\* agent; a key attempt always uses the target's key path when it is set.
C11_MissingKeySkipped ==
    /\ [](\A i \in 1..Len(attempts) :
             attempts[i].method = "key" => attempts[i].path = tilde(PreferredKey.val))
    /\ [][(pc = "key" /\ PreferredKeyMissing)
             => (pc' = "agent" /\ UNCHANGED <<attempts, authenticated, conn_ret>>)]_vars
    /\ [][(pc = "agent" /\ PreferredKeyMissing)
             => (Len(attempts') = 1 /\ attempts'[1].method = "agent")]_vars

\* the target's key file is missing while the global one exists, and the
\* agent alone authenticated the session
C11_Witness ==
    /\ pc = "done" /\ conn_ret = ConnOk
    /\ target.ssh_key # None /\ tilde(target.ssh_key.val) \notin key_files
    /\ key_path # None /\ tilde(key_path.val) \in key_files
    /\ Len(attempts) = 1 /\ attempts[1].method = "agent"


(***************************************************************************)
(* Properties of the session calls                                         *)
(***************************************************************************)
\* C12: execute_command returns a CommandResult for every command that runs
\* to termination, whatever its exit status, with success exactly when the
\* exit status is 0, and returns an error only when one of its transport
\* steps failed.
C12_ExecuteCommandResult ==
    sess_ret.call = "execute_command" =>
        LET o == trace[1].out
        IN  /\ o.kind = "exit" =>
                  /\ sess_ret.ok
                  /\ sess_ret.val.exit_code = o.exit_code
                  /\ sess_ret.val.stdout = o.stdout
                  /\ sess_ret.val.success = (o.exit_code = 0)
            /\ ~sess_ret.ok => (o.kind = "fail" /\ sess_ret.val = o.step)

\* a command that exited non-zero came back as a result, not as an error
C12_Witness ==
    /\ sess_ret.call = "execute_command"
    /\ trace[1].out.kind = "exit" /\ trace[1].out.exit_code # 0
    /\ sess_ret.ok /\ ~sess_ret.val.success

\* C13: ensure_directory, file_exists and directory_exists return a transport
\* error of the underlying command as an error, never as the answer false;
\* false is returned only when the test command ran and exited non-zero.
C13_TransportErrorPropagates ==
    sess_ret.call \in {"file_exists", "directory_exists", "ensure_directory"} =>
        LET o == trace[1].out
        IN  /\ o.kind = "fail" => ~sess_ret.ok
            /\ (sess_ret.call # "ensure_directory" /\ sess_ret.ok /\ sess_ret.val = FALSE)
                  => (o.kind = "exit" /\ o.exit_code # 0)

\* C14: get_system_info issues uname, uptime, df and whoami in that order,
\* returns an error at the first one that fails at transport level without
\* issuing the later ones, and otherwise succeeds with each command's
\* trimmed stdout, whatever the exit statuses.
C14_SystemInfoSequence ==
    sess_ret.call = "get_system_info" =>
        /\ Len(trace) <= 4
        /\ \A i \in 1..Len(trace) :
              /\ trace[i].cmd = <<"uname -a", "uptime", "df -h /", "whoami">>[i]
              /\ trace[i].out.kind = "fail" => (i = Len(trace) /\ info_pc = 0 /\ ~sess_ret.ok)
        /\ info_pc = 0 =>
              IF \E i \in 1..Len(trace) : trace[i].out.kind = "fail"
              THEN ~sess_ret.ok
              ELSE /\ Len(trace) = 4
                   /\ sess_ret.ok
                   /\ sess_ret.val.hostname = target.host
                   /\ sess_ret.val.uname = trim(trace[1].out.stdout)
                   /\ sess_ret.val.uptime = trim(trace[2].out.stdout)
                   /\ sess_ret.val.disk_usage = trim(trace[3].out.stdout)
                   /\ sess_ret.val.current_user = trim(trace[4].out.stdout)
        /\ info_pc # 0 => Len(trace) = info_pc - 1

\* the query succeeded although df exited non-zero with nothing on stdout,
\* and recorded uname's output without its surrounding white space
C14_Witness ==
    /\ sess_ret.call = "get_system_info" /\ sess_ret.ok
    /\ Len(trace) = 4
    /\ trace[3].out.exit_code = 1 /\ trace[3].out.stdout = <<>>
    /\ sess_ret.val.disk_usage = <<>>
    /\ trace[1].out.stdout = <<" ", "x", "\n">> /\ sess_ret.val.uname = <<"x">>


(***************************************************************************)
(* Properties of the pool                                                  *)
(***************************************************************************)
\* a step that is a call of get_connection (not the return of its connect)
IsGetCall == inflight = None /\ pool_ret'.call = "get_connection"
\* a step that is the return of the connect get_connection awaited
IsGetResume == inflight # None

\* C15: with one pool call at a time, get_connection connects only when the
\* key user@host:port is absent and otherwise returns the cached session
\* without connecting; a key sees at most one successful connect between two
\* evictions; a failed connect adds no entry and changes no other entry.
C15_ConnectOnlyWhenAbsent ==
    /\ [](\A k \in PoolKeys : live[k] <= 1)
    /\ [](inflight # None => ~contains_key(connections, inflight.val.user \o "@" \o inflight.val.host
                                                         \o ":" \o ToString(inflight.val.port)))
    /\ [][(IsGetCall /\ contains_key(connections, pool_ret'.key))
             => /\ pool_ret'.ok /\ ~pool_ret'.connected
                /\ pool_ret'.session = connections[pool_ret'.key]
                /\ UNCHANGED <<connections, inflight, next_session>>]_vars
    /\ [][(IsGetCall /\ ~contains_key(connections, pool_ret'.key))
             => (inflight' # None /\ UNCHANGED connections)]_vars
    /\ [][(IsGetResume /\ ~pool_ret'.ok) => UNCHANGED connections]_vars
    /\ [][(IsGetResume /\ pool_ret'.ok)
             => /\ DOMAIN connections' = (DOMAIN connections) \cup {pool_ret'.key}
                /\ connections'[pool_ret'.key] = pool_ret'.session
                /\ \A k \in DOMAIN connections : k # pool_ret'.key => connections'[k] = connections[k]]_vars

\* a second definition that renders to a cached key got the cached session,
\* without a connect, while another key is in the pool
C15_Witness ==
    /\ pool_ret.call = "get_connection" /\ pool_ret.ok /\ ~pool_ret.connected
    /\ pool_ret.key = "u@h@x:22"
    /\ live[pool_ret.key] = 1
    /\ Cardinality(DOMAIN connections) = 2
    /\ next_session = 2

\* C16: disconnect removes exactly the entry under the definition's key and
\* releases its session, leaving every other entry as it was (nothing at all
\* when the key is absent); disconnect_all empties the pool; after either,
\* get_connection for a removed key connects afresh.
C16_EvictionFrame ==
    /\ [][pool_ret'.call = "disconnect"
             => /\ DOMAIN connections' = (DOMAIN connections) \ {pool_ret'.key}
                /\ \A k \in DOMAIN connections' : connections'[k] = connections[k]
                /\ released' = released \cup
                      {[key |-> k, session |-> connections[k]] : k \in (DOMAIN connections) \cap {pool_ret'.key}}]_vars
    /\ [][pool_ret'.call = "disconnect_all"
             => /\ DOMAIN connections' = {}
                /\ released' = released \cup
                      {[key |-> k, session |-> connections[k]] : k \in DOMAIN connections}]_vars
    /\ [][(IsGetCall /\ pool_ret'.key \notin DOMAIN connections) => inflight' # None]_vars
    /\ [][(IsGetResume /\ pool_ret'.ok)
             => (pool_ret'.connected /\ \A r \in released : r.session # pool_ret'.session)]_vars

\* after a disconnect that left the other entry in place, get_connection for
\* the removed key came back with a fresh session
C16_Witness ==
    /\ pool_ret.call = "get_connection" /\ pool_ret.ok /\ pool_ret.connected
    /\ \E r \in released : r.key = pool_ret.key /\ r.session < pool_ret.session
    /\ Cardinality(DOMAIN connections) = 2
    /\ \A r \in released : r.key = pool_ret.key


(***************************************************************************)
(* The deploy and manage commands                                          *)
(***************************************************************************)
\* how many of the planned local paths may be absent
MaxMissing == 1
\* how many remote commands of a run may exit with a non-zero status
MaxNonZero == 1

\* the registry the commands run against
DeployRegistry == [n \in {"a"} |-> [name |-> "a", host |-> "h", user |-> "u", port |-> 65535, last_seen |-> None]]
\* --host values: a registered name, a registered host, an unknown host
DeployHosts == {"a", "h", "x"}

NonZero == Cardinality({i \in DOMAIN d_log : d_log[i].res = "nonzero"})
\* the outcomes left to a remote command once the bound on non-zero exits is used up
Within(outcomes) ==
    IF NonZero < MaxNonZero THEN outcomes
    ELSE {o \in outcomes : o.kind = "exit" => o.exit_code = 0}

InitDeploy ==
    /\ servers = DeployRegistry
    /\ default_server = None
    /\ temp_threshold = 80
    /\ battery_warning_level = 20
    /\ key_path = None
    /\ log_level = "info"
    /\ ret = NoCall
    /\ ConnIdle
    /\ SessIdle
    /\ PoolNew
    /\ CopyDirIdle
    /\ local_files \in {f \in SUBSET LocalPaths : Cardinality(LocalPaths \ f) <= MaxMissing}
    /\ local_dirs \in SUBSET (local_files \cap {<<"docs">>})
    /\ d_server = None
    /\ deployment_items = <<>>
    /\ d_cat = 0
    /\ d_item = 0
    /\ pb_pos = 0
    /\ d_log = <<>>
    /\ d_ret = [ok |-> TRUE, val |-> "pending"]
    /\ m_ret = [ok |-> TRUE, val |-> "pending"]
    /\ d_runs = 1
    /\ \/ /\ m_pc = "off"
          /\ m_in = [host |-> "", action |-> "none"]
          /\ d_pc = "resolve"
          /\ d_in \in [host : DeployHosts, user : {None, Some("u")}, port : {DefaultPort},
                       all : BOOLEAN, scripts_only : BOOLEAN, config_only : BOOLEAN]
       \/ /\ m_pc = "resolve"
          /\ m_in \in [host : DeployHosts, action : ManageActions]
          /\ d_pc = "idle"
          /\ d_in = [host |-> "", user |-> None, port |-> DefaultPort,
                     all |-> FALSE, scripts_only |-> FALSE, config_only |-> FALSE]

NextDeploy ==
    \/ DeployResolve
    \/ \E o \in CopyOutcomes : DeployConnect(o)
    \/ \E o \in EchoOutcomes : DeployTestConnection(o)
    \/ DeployPlan
    \/ DeployServerSetupCheck
    \/ \E o \in CopyOutcomes : DeployServerSetupCopy(o)
    \/ \E o \in Within(DeployOutcomes) : DeployServerSetupChmod(o)
    \/ \E o \in Within(DeployOutcomes) : DeployScriptsEnsure(o)
    \/ DeployScriptsItem
    \/ \E o \in CopyOutcomes : DeployScriptsCopy(o)
    \/ \E o \in Within(DeployOutcomes) : DeployScriptsChmod(o)
    \/ DeployConfigsItem
    \/ \E o \in Within(DeployOutcomes) : DeployConfigsMkdir(o)
    \/ \E o \in CopyOutcomes : DeployConfigsCopy(o)
    \/ DeployServicesItem
    \/ \E o \in CopyOutcomes : DeployServicesCopy(o)
    \/ DeployFinish
    \/ DeployRetry
    \/ ManageResolve
    \/ \E o \in CopyOutcomes : ManageConnect(o)
    \/ \E o \in DeployOutcomes : ManageStart(o)
    \/ ManageUpdate
    \/ ManageUpdateReturn

SpecDeploy == InitDeploy /\ [][NextDeploy]_vars


(***************************************************************************)
(* Properties of the deploy and manage commands                            *)
(***************************************************************************)
\* C18: within one command invocation at most one connection is established
\* per (user, host, port) endpoint; manage update connects once.
C18_OneConnectPerEndpoint ==
    \A i, j \in DOMAIN d_log :
        (d_log[i].op = "connect" /\ d_log[j].op = "connect" /\ d_log[i].remote = d_log[j].remote) => i = j

\* the four scripts pairs, as section 6 of the description lists them
ScriptsManifest ==
    << <<(<<"scripts", "temp">>), (<<"~", "scripts", "temp">>)>>,
       <<(<<"scripts", "battery">>), (<<"~", "scripts", "battery">>)>>,
       <<(<<"scripts", "power_diagnostics">>), (<<"~", "scripts", "power_diagnostics">>)>>,
       <<(<<"scripts", "setup_aliases.sh">>), (<<"~", "scripts", "setup_aliases.sh">>)>> >>
FullManifest ==
    << <<"server-setup", << <<(<<"server_setup.sh">>), (<<"~", "server_setup.sh">>)>> >> >>,
       <<"scripts", ScriptsManifest>>,
       <<"configs", << <<(<<"caffeinate.plist">>), (<<"~", "Library", "LaunchAgents", "caffeinate.plist">>)>> >> >>,
       <<"services", << <<(<<"docs">>), (<<"~", "docs">>)>> >> >> >>
ConfigsManifest ==
    << <<(<<"caffeinate.plist">>), (<<"~", "Library", "LaunchAgents", "caffeinate.plist">>)>>,
       <<(<<"server_setup.sh">>), (<<"~", "server_setup.sh">>)>> >>

\* the flags select exactly one mode, or none
ModeAll == d_in.all /\ ~d_in.scripts_only /\ ~d_in.config_only
ModeNone == ~d_in.all /\ ~d_in.scripts_only /\ ~d_in.config_only
ModeScripts == ~d_in.all /\ d_in.scripts_only /\ ~d_in.config_only
ModeConfig == ~d_in.all /\ ~d_in.scripts_only /\ d_in.config_only

\* C19: the plan is the static manifest of the selected mode: all, and no
\* flag at all, give server-setup, scripts, configs, services in that order;
\* scripts-only gives the one category scripts with its four pairs;
\* config-only gives the one category configs with caffeinate.plist then
\* server_setup.sh; planning depends on the flags alone and does nothing else.
C19_PlanIsManifest ==
    /\ [][d_pc = "plan" =>
            /\ (ModeAll \/ ModeNone) => deployment_items' = FullManifest
            /\ ModeScripts => deployment_items' = << <<"scripts", ScriptsManifest>> >>
            /\ ModeConfig => deployment_items' = << <<"configs", ConfigsManifest>> >>
            /\ UNCHANGED <<d_log, local_files, local_dirs, d_in>>]_vars
    /\ [][d_pc \notin {"plan", "done"} => UNCHANGED deployment_items]_vars

\* a scripts-only deployment ran to the end on its one-category plan
C19_Witness ==
    /\ ModeScripts
    /\ d_pc = "done" /\ d_ret.ok
    /\ Len(deployment_items) = 1
    /\ deployment_items[1][1] = "scripts"
    /\ pb_pos = 1

\* the run is about to look at the local source of a plan item
AtItem == d_pc \in {"setup_check", "scripts_item", "configs_item", "services_item"}

\* C20: a plan item whose local source does not exist, in any category, is
\* reported as skipped and the run goes on with the items after it.
C20_MissingSourceSkipped ==
    [][(AtItem /\ local_path \notin local_files)
          => /\ d_log' = Append(d_log, [op |-> "skip", cat |-> d_cat, local |-> local_path,
                                        remote |-> remote_path, res |-> "skip"])
             /\ d_pc' # "done"
             /\ d_ret' = d_ret]_vars


\* the log entries that are a transfer of a plan item or a remote command that goes with one
ItemOps == {"copy", "copy_directory", "chmod", "mkdir"}
Last(log) == log[Len(log)]

\* C21: a transport failure in the transfer of a plan item, or in the remote
\* command that goes with it, is the last thing the run does: nothing of a
\* later item or category follows it, and the run has returned an error.
C21_TransportFailureAborts ==
    \A i \in DOMAIN d_log :
        (d_log[i].op \in ItemOps /\ d_log[i].res = "fail")
            => (i = Len(d_log) /\ d_pc = "done" /\ ~d_ret.ok)

\* the transfer of the second of four scripts failed, with two categories still to come
C21_Witness ==
    /\ d_pc = "done" /\ ~d_ret.ok
    /\ Len(deployment_items) = 4 /\ d_cat = 2 /\ d_item = 2 /\ pb_pos = 1
    /\ Len(d_log) > 0
    /\ Last(d_log).op = "copy" /\ Last(d_log).res = "fail"
    /\ Last(d_log).local = <<"scripts", "battery">>


\* the category a log entry of the loop belongs to
CategoryOf(e) == deployment_items[e.cat][1]
\* the entry is a completed transfer that calls for chmod +x
WantsChmod(e) ==
    /\ e.op = "copy" /\ e.res = "ok"
    /\ CategoryOf(e) \in {"server-setup", "scripts"}
    /\ e.local[Len(e.local)] # "setup_aliases.sh"

\* C22: chmod +x is issued for a path exactly when the path was transferred
\* in server-setup or scripts and is not setup_aliases.sh, and right after
\* that transfer completed; never for setup_aliases.sh, a skipped item, or a
\* path of configs or services.
C22_ChmodExactlyForScripts ==
    /\ \A j \in DOMAIN d_log :
          d_log[j].op = "chmod"
             => /\ j > 1
                /\ WantsChmod(d_log[j - 1])
                /\ d_log[j - 1].remote = d_log[j].remote
    /\ \A i \in DOMAIN d_log :
          (d_log[i].op \in {"copy", "copy_directory"} /\ d_log[i].cat >= 1 /\ WantsChmod(d_log[i]))
             => IF i = Len(d_log)
                THEN d_pc \in {"setup_chmod", "scripts_chmod"}
                ELSE d_log[i + 1].op = "chmod" /\ d_log[i + 1].remote = d_log[i].remote

\* a full deployment completed: setup_aliases.sh and the configs and services
\* paths were transferred, and the four other paths were made executable
C22_Witness ==
    /\ d_pc = "done" /\ d_ret.ok /\ Len(deployment_items) = 4
    /\ \E i \in DOMAIN d_log : d_log[i].op = "copy" /\ d_log[i].res = "ok"
                               /\ d_log[i].local = <<"scripts", "setup_aliases.sh">>
    /\ \E i \in DOMAIN d_log : d_log[i].op = "copy" /\ d_log[i].local = <<"caffeinate.plist">>
    /\ \E i \in DOMAIN d_log : d_log[i].op = "copy_directory"
    /\ Cardinality({i \in DOMAIN d_log : d_log[i].op = "chmod"}) = 4


\* the log entries that settle a plan item: its transfer, or its skip
IsItemEvent(e) == e.op \in {"copy", "copy_directory", "skip"}
\* where in the plan the item of such an entry stands
ItemIndex(e) ==
    CHOOSE k \in DOMAIN deployment_items[e.cat][2] : deployment_items[e.cat][2][k][1] = e.local
PlanBefore(c1, k1, c2, k2) == c1 < c2 \/ (c1 = c2 /\ k1 < k2)
PlanPositions == {<<c, k>> : c \in DOMAIN deployment_items, k \in 1..4}

\* C23: categories are processed in the planner's order and pairs in list
\* order: when the transfer of an item starts, every item before it in the
\* plan has been transferred or skipped, and nothing is taken up out of order.
C23_PlanOrder ==
    /\ \A i, j \in DOMAIN d_log :
          (i < j /\ d_log[i].cat >= 1) => d_log[i].cat <= d_log[j].cat
    /\ \A i, j \in DOMAIN d_log :
          (i < j /\ IsItemEvent(d_log[i]) /\ IsItemEvent(d_log[j]))
             => PlanBefore(d_log[i].cat, ItemIndex(d_log[i]), d_log[j].cat, ItemIndex(d_log[j]))
    /\ \A j \in DOMAIN d_log :
          IsItemEvent(d_log[j]) =>
             \A p \in PlanPositions :
                (p[2] <= Len(deployment_items[p[1]][2])
                 /\ PlanBefore(p[1], p[2], d_log[j].cat, ItemIndex(d_log[j])))
                   => \E i \in 1..(j - 1) :
                         /\ IsItemEvent(d_log[i])
                         /\ d_log[i].cat = p[1] /\ ItemIndex(d_log[i]) = p[2]
                         /\ d_log[i].res \in {"ok", "skip"}

\* a full deployment completed in which one script was skipped and the
\* services path was the last to be transferred
C23_Witness ==
    /\ d_pc = "done" /\ d_ret.ok /\ Len(deployment_items) = 4
    /\ \E i \in DOMAIN d_log : d_log[i].op = "skip" /\ d_log[i].local = <<"scripts", "battery">>
    /\ Len(d_log) > 0
    /\ IsItemEvent(Last(d_log)) /\ Last(d_log).cat = 4 /\ Last(d_log).res = "ok"


\* the phases of a deployment run.  The plan is made and the loop entered in
\* one step, so a run is in progress from the state after planning on.
Phase ==
    IF d_pc \in {"idle", "resolve", "connect", "test", "plan"} THEN "NotPlanned"
    ELSE IF d_pc # "done" THEN "InProgress"
    ELSE IF deployment_items = <<>> THEN "Failed"
    ELSE IF d_ret.ok THEN "Completed"
    ELSE "Aborted"
PhaseSteps ==
    {<<"NotPlanned", "InProgress">>, <<"NotPlanned", "Failed">>,
     <<"InProgress", "Completed">>, <<"InProgress", "Aborted">>,
     <<"Aborted", "NotPlanned">>, <<"Failed", "NotPlanned">>}
    \cup {<<p, p>> : p \in {"NotPlanned", "InProgress", "Completed", "Aborted", "Failed"}}

\* C24: a run goes from planned to in progress to completed or aborted and
\* nowhere else; it is completed only when every category returned without
\* error; it transfers nothing once completed or aborted; the cursor goes up
\* by one per finished category and never beyond the number of plan items;
\* a retry after an abort starts from the first plan item.
C24_RunStateMachine ==
    /\ [][(<<Phase, Phase'>> \in PhaseSteps)]_vars
    /\ [][(Phase = "NotPlanned" /\ Phase' = "InProgress")
             => (deployment_items' # <<>> /\ pb_pos' = 0 /\ d_cat' = 1 /\ d_item' = 1 /\ d_log' = d_log)]_vars
    /\ [](Phase = "Completed"
             => /\ pb_pos = Len(deployment_items)
                /\ \A i \in DOMAIN d_log : d_log[i].res # "fail")
    /\ [][(d_pc = "done" /\ d_pc' = "done") => d_log' = d_log]_vars
    /\ [](pb_pos <= Len(deployment_items))
    /\ [][pb_pos' # pb_pos => ((pb_pos' = pb_pos + 1 /\ d_cat' = d_cat + 1) \/ Phase' = "NotPlanned")]_vars
    /\ [][(d_cat >= 1 /\ d_cat' # d_cat) => ((pb_pos' = pb_pos + 1 /\ d_cat' = d_cat + 1) \/ Phase' = "NotPlanned")]_vars
    /\ [][(d_pc = "done" /\ d_pc' # "done")
             => /\ Phase \in {"Aborted", "Failed"}
                /\ d_pc' = "resolve" /\ deployment_items' = <<>>
                /\ d_cat' = 0 /\ d_item' = 0 /\ pb_pos' = 0 /\ d_log' = <<>>]_vars
    /\ [](\A j \in DOMAIN d_log :
             (IsItemEvent(d_log[j]) /\ \A i \in 1..(j - 1) : ~IsItemEvent(d_log[i]))
                => (d_log[j].cat = 1 /\ ItemIndex(d_log[j]) = 1))

\* the second invocation, after an aborted first one, went through all four
\* categories from the first item and completed
C24_Witness ==
    /\ d_runs = 2
    /\ Phase = "Completed" /\ pb_pos = 4
    /\ \E j \in DOMAIN d_log : d_log[j].op = "copy" /\ d_log[j].local = <<"server_setup.sh">> /\ d_log[j].cat = 1


\* C25: in scripts and configs every transfer comes after a mkdir -p of the
\* parent of its remote path in the same run, and is attempted only if that
\* mkdir succeeded.
C25_ParentEnsured ==
    \A j \in DOMAIN d_log :
        (d_log[j].op = "copy" /\ d_log[j].cat >= 1 /\ CategoryOf(d_log[j]) \in {"scripts", "configs"})
            => \E i \in 1..(j - 1) :
                  /\ d_log[i].op = "mkdir"
                  /\ d_log[i].remote = SubSeq(d_log[j].remote, 1, Len(d_log[j].remote) - 1)
                  /\ d_log[i].res = "ok"


\* C28: for all eight settings of the flags the plan is not empty; all wins
\* over the other two, scripts_only wins over config_only, and the
\* config-only plan comes from config_only alone; the "no deployment items"
\* return of the deploy command is never taken.
C28_FlagPrecedence ==
    /\ [][d_pc = "plan" =>
            /\ deployment_items' # <<>>
            /\ d_in.all => deployment_items' = FullManifest
            /\ (~d_in.all /\ d_in.scripts_only) => deployment_items' = << <<"scripts", ScriptsManifest>> >>
            /\ (~d_in.all /\ ~d_in.scripts_only /\ d_in.config_only)
                  => deployment_items' = << <<"configs", ConfigsManifest>> >>
            /\ deployment_items' = << <<"configs", ConfigsManifest>> >> => ModeConfig
            /\ d_pc' # "done"]_vars
    /\ [](d_ret.val # "No deployment items specified")

\* with scripts_only and config_only both set the run went through the
\* scripts plan alone
C28_Witness ==
    /\ ~d_in.all /\ d_in.scripts_only /\ d_in.config_only
    /\ d_pc = "done" /\ d_ret.ok
    /\ Len(deployment_items) = 1 /\ deployment_items[1][1] = "scripts"
    /\ \E i \in DOMAIN d_log : d_log[i].op = "copy" /\ d_log[i].res = "ok"


\* the --host value names no registry entry, neither by name nor by host
HostUnknown == \A n \in DOMAIN servers : n # d_in.host /\ servers[n].host # d_in.host

\* C29: no transfer, mkdir or chmod is issued unless, earlier in the same
\* run, the target was resolved, connect succeeded and the echo test passed;
\* with an unknown host and no user the deploy command fails before any
\* connection attempt.
C29_GatedByConnectionTest ==
    /\ \A i \in DOMAIN d_log :
          d_log[i].op \in ItemOps
             => /\ d_server.some
                /\ \E j \in 1..(i - 1), k \in 1..(i - 1) :
                      /\ j < k
                      /\ d_log[j].op = "connect" /\ d_log[j].res = "ok"
                      /\ d_log[j].remote = <<d_server.val.user, d_server.val.host, ToString(d_server.val.port)>>
                      /\ d_log[k].op = "test" /\ d_log[k].res = "ok"
    /\ (m_pc = "off" /\ HostUnknown /\ ~d_in.user.some)
          => /\ d_pc \in {"resolve", "done"}
             /\ d_log = <<>>
             /\ d_pc = "done" => ~d_ret.ok

\* a host that is not registered, given with a user, was connected to and
\* tested before its first file was transferred
C29_Witness ==
    /\ m_pc = "off" /\ HostUnknown /\ d_in.user.some
    /\ d_server.some /\ d_server.val.host = "x"
    /\ Len(d_log) >= 3
    /\ d_log[1].op = "connect" /\ d_log[2].op = "test"
    /\ d_log[3].op \in ItemOps


(***************************************************************************)
(* test_connectivity: connect, then the echo test                          *)
(***************************************************************************)
NextConnectivity ==
    \/ \E o \in {"ok", "timeout", "refused"} : ConnectTcp(o) /\ ConnectFrame
    \/ \E b \in BOOLEAN : Handshake(b) /\ ConnectFrame
    \/ \E o \in AuthOutcomes : KeyAuth(o) /\ ConnectFrame
    \/ \E o \in AuthOutcomes : AgentAuth(o) /\ ConnectFrame
    \/ FinalCheck /\ ConnectFrame
    \/ \E o \in EchoOutcomes : TestConnectivity(o)

SpecConnectivity == InitConnect /\ [][NextConnectivity]_vars

\* C27: for every command and every timeout execute_command_with_timeout
\* issues the command it was given, once, and returns what execute_command
\* returns for the same outcome of the remote command; it never reports a
\* timeout.
C27_TimeoutIgnored ==
    sess_ret.call = "execute_command_with_timeout" =>
        /\ Len(trace) = 1
        /\ trace[1].cmd = sess_ret.cmd
        /\ sess_ret.ok = execute_command(trace[1].out).ok
        /\ sess_ret.val = execute_command(trace[1].out).val
        /\ sess_ret.ok = (trace[1].out.kind = "exit")
        /\ ~sess_ret.ok => sess_ret.val \in {ExecSteps[i] : i \in DOMAIN ExecSteps}

\* with a timeout of zero the command ran to an exit status of its own
C27_Witness ==
    /\ sess_ret.call = "execute_command_with_timeout"
    /\ sess_ret.timeout = 0
    /\ sess_ret.ok /\ sess_ret.val.exit_code = 1
    /\ trace[1].cmd = "uptime"

\* the echo of the connection test passed
EchoPassed ==
    /\ Len(trace) = 1
    /\ trace[1].out.kind = "exit"
    /\ trace[1].out.exit_code = 0
    /\ trim(trace[1].out.stdout) = <<"connection test">>

\* C30: test_connectivity returns true only when connect succeeded and the
\* echo exited 0 with the trimmed output 'connection test'; every failure of
\* connect comes back as false, not as an error; a session that connected
\* and fails the echo test comes back as an error, never as false.
C30_ConnectivityResult ==
    sess_ret.call = "test_connectivity" =>
        /\ (sess_ret.ok /\ sess_ret.val) => (conn_ret.ok /\ EchoPassed)
        /\ ~conn_ret.ok => (sess_ret.ok /\ ~sess_ret.val /\ trace = <<>>)
        /\ (conn_ret.ok /\ ~EchoPassed) => ~sess_ret.ok
        /\ (conn_ret.ok /\ EchoPassed) => (sess_ret.ok /\ sess_ret.val)

\* the session was authenticated and the echo exited 0 with other output
C30_Witness ==
    /\ sess_ret.call = "test_connectivity"
    /\ conn_ret.ok /\ authenticated
    /\ ~sess_ret.ok /\ sess_ret.val = "Connection test failed"
    /\ trace[1].out.exit_code = 0


(***************************************************************************)
(* copy_directory on an established session                                *)
(***************************************************************************)
InitCopyDir ==
    /\ DefaultConfig
    /\ ret = NoCall
    /\ ConnEstablished
    /\ SessIdle
    /\ PoolNew
    /\ DeployIdle
    /\ cd_walk \in Walks
    /\ cd_pc = "start"
    /\ cd_i = 0
    /\ cd_log = <<>>
    /\ cd_remote = {}
    /\ cd_ret = [ok |-> TRUE, val |-> "pending"]

NextCopyDir ==
    \/ \E o \in DeployOutcomes : CopyDirectoryStart(o)
    \/ CopyDirectoryEntry
    \/ \E o \in DeployOutcomes : CopyDirectoryMkdir(o)
    \/ \E o \in CopyOutcomes : CopyDirectoryCopy(o)
    \/ CopyDirectoryFinish

SpecCopyDir == InitCopyDir /\ [][NextCopyDir]_vars


IsCopy(e) == e.op = "copy"
IsFile(e) == e.kind = "file"
\* the transfers copy_directory made so far, and the regular files of the walk, both in order
CopiesMade == SelectSeq(cd_log, IsCopy)
WalkFiles == SelectSeq(cd_walk, IsFile)

\* C26: copy_directory transfers every regular file under local_dir to
\* remote_dir joined with the file's relative path, each after a mkdir -p of
\* that remote path's parent; the first failing step ends it with an error,
\* no further file is attempted, and what was transferred stays on the
\* remote side.
C26_CopyDirectoryPartial ==
    /\ [](/\ Len(CopiesMade) <= Len(WalkFiles)
          /\ \A k \in DOMAIN CopiesMade : CopiesMade[k].remote = <<"~", "docs">> \o WalkFiles[k].path)
    /\ []((cd_pc = "done" /\ cd_ret.ok)
             => /\ Len(CopiesMade) = Len(WalkFiles)
                /\ cd_remote = {<<"~", "docs">> \o WalkFiles[k].path : k \in DOMAIN WalkFiles})
    /\ [](\A j \in DOMAIN cd_log :
             cd_log[j].op = "copy"
                => /\ j > 1
                   /\ cd_log[j - 1].op = "mkdir"
                   /\ cd_log[j - 1].remote = SubSeq(cd_log[j].remote, 1, Len(cd_log[j].remote) - 1)
                   /\ cd_log[j - 1].res # "fail")
    /\ [](\A i \in DOMAIN cd_log :
             cd_log[i].res = "fail" => (i = Len(cd_log) /\ cd_pc = "done" /\ ~cd_ret.ok))
    /\ [](cd_remote = {cd_log[i].remote : i \in {k \in DOMAIN cd_log : cd_log[k].op = "copy" /\ cd_log[k].res = "ok"}})
    /\ [][cd_remote \subseteq cd_remote']_vars
    /\ [][cd_pc = "done" => UNCHANGED <<cd_log, cd_remote, cd_ret>>]_vars

\* the transfer of the second file failed and the first file is on the remote side
C26_Witness ==
    /\ cd_pc = "done" /\ ~cd_ret.ok
    /\ Len(WalkFiles) = 2
    /\ Len(cd_log) > 0
    /\ cd_log[Len(cd_log)].op = "copy" /\ cd_log[Len(cd_log)].res = "fail"
    /\ Cardinality(cd_remote) = 1

====
